---------------------------- MODULE Spec2Model ----------------------------
(***************************************************************************)
(* Frame-capture driver for a parallel CMOS sensor on an RP2040-class      *)
(* microcontroller (camera.c, format.c).  The model covers the capture     *)
(* context (struct camera), the cached per-format configuration, the      *)
(* pending-request slot shared with the completion interrupt, and the     *)
(* hardware the driver programs: DMA channel claims and transfers, PIO    *)
(* state machines, the PIO interrupt flag and the NVIC enable bit.        *)
(*                                                                         *)
(* Execution model.  One foreground thread issues the API calls.  The     *)
(* completion interrupt is asynchronous: the frame-timing program raises  *)
(* the PIO interrupt flag when a frame ends, and the handler runs at any  *)
(* later point at which the flag is raised and the NVIC line is enabled,  *)
(* including between two foreground statements of camera_do_frame.        *)
(***************************************************************************)
EXTENDS Integers, Sequences, FiniteSets, TLC

(***************************************************************************)
(* Program constants                                                       *)
(***************************************************************************)
CAMERA_WIDTH_DIV8 == 80

CAMERA_HEIGHT_DIV8 == 60

CAMERA_MAX_N_PLANES == 3

\* FORMAT_CODE(a, b, c, d): four character codes packed little-endian.
FORMAT_CODE(a, b, c, d) == a + b * 256 + c * 65536 + d * 16777216

\* 'Y' = 89, 'U' = 85, 'V' = 86, 'R' = 82, 'G' = 71, '1' = 49, '6' = 54
FORMAT_YUYV == FORMAT_CODE(89, 85, 89, 86)

FORMAT_RGB565 == FORMAT_CODE(82, 71, 49, 54)

FORMAT_YUV422 == FORMAT_CODE(89, 85, 49, 54)

\* A code that is none of the three supported ones ('G','R','E','Y').
FORMAT_OTHER == FORMAT_CODE(71, 82, 69, 89)

\* enum dma_channel_transfer_size of the SDK
DMA_SIZE_8 == 0

DMA_SIZE_16 == 1

DMA_SIZE_32 == 2

\* OV7670_colorspace, OV7670_size
OV7670_COLOR_RGB == 0

OV7670_COLOR_YUV == 1

OV7670_SIZE_DIV8 == 3

\* The frame-timing program runs on state machine 0 of the PIO instance.
CAMERA_PIO_FRAME_SM == 0

\* Hardware sizes of the RP2040: DMA channels, PIO instruction slots.
NUM_DMA_CHANNELS == 12

PIO_INSTRUCTION_COUNT == 32

\* Lengths of the two PIO programs loaded by camera_pio_init.
ReadByteProgramLen == 2

FrameProgramLen == 13

\* A null pointer (no buffer, no callback, no user data).
NULL == 0

(***************************************************************************)
(* Format calculus (format.c)                                              *)
(***************************************************************************)
format_num_planes(format) ==
    IF format = FORMAT_YUYV \/ format = FORMAT_RGB565 THEN 1
    ELSE IF format = FORMAT_YUV422 THEN 3
    ELSE 0

\* A format_bytes_per_pixel whose default branch returns 1.
format_bytes_per_pixel_default_one(format, plane) ==
    IF format = FORMAT_YUYV \/ format = FORMAT_RGB565 THEN 2
    ELSE 1

format_bytes_per_pixel(format, plane) ==
    IF format = FORMAT_YUYV \/ format = FORMAT_RGB565 THEN 2
    ELSE IF format = FORMAT_YUV422 THEN 1
    ELSE 0

\* A format_hsub without chroma subsampling.
format_hsub_none(format, plane) == 1

format_hsub(format, plane) ==
    IF format = FORMAT_YUV422 THEN (IF plane # 0 THEN 2 ELSE 1)
    ELSE 1

\* uint8_t * uint16_t is computed in int and returned as uint32_t: at most
\* 2 * 65535, so the conversion changes nothing.
format_stride(format, plane, width) ==
    (format_bytes_per_pixel(format, plane) * width) \div format_hsub(format, plane)

\* uint32_t * uint16_t, a 32-bit product.  The widths and heights of this
\* model keep it far below 2^31.
format_plane_size(format, plane, width, height) ==
    format_stride(format, plane, width) * height

(***************************************************************************)
(* Per-format hardware parameters (camera.c)                               *)
(***************************************************************************)
ov7670_colorspace_from_format(format) ==
    IF format = FORMAT_RGB565 THEN OV7670_COLOR_RGB
    ELSE IF format = FORMAT_YUYV \/ format = FORMAT_YUV422 THEN OV7670_COLOR_YUV
    ELSE 0

\* A transfer size that is 32 bits for every format and plane.
camera_transfer_size_all_32(format, plane) ==
    IF format = FORMAT_YUYV \/ format = FORMAT_RGB565 \/ format = FORMAT_YUV422 THEN DMA_SIZE_32
    ELSE 0

camera_transfer_size(format, plane) ==
    IF format = FORMAT_YUYV \/ format = FORMAT_RGB565 THEN DMA_SIZE_32
    ELSE IF format = FORMAT_YUV422 THEN (IF plane # 0 THEN DMA_SIZE_8 ELSE DMA_SIZE_16)
    ELSE 0

\* A conversion that returns the width in bits.
dma_transfer_size_to_bytes_as_bits(dma) ==
    IF dma = DMA_SIZE_8 THEN 8
    ELSE IF dma = DMA_SIZE_16 THEN 16
    ELSE IF dma = DMA_SIZE_32 THEN 32
    ELSE 0

dma_transfer_size_to_bytes(dma) ==
    IF dma = DMA_SIZE_8 THEN 1
    ELSE IF dma = DMA_SIZE_16 THEN 2
    ELSE IF dma = DMA_SIZE_32 THEN 4
    ELSE 0

\* The pixel-unpacking subroutine patched into the frame program; "NULL" for
\* an unrecognized format.
camera_get_pixel_loop(format) ==
    IF format = FORMAT_YUYV THEN "pixel_loop_yuyv"
    ELSE IF format = FORMAT_RGB565 THEN "pixel_loop_yuyv"
    ELSE IF format = FORMAT_YUV422 THEN "pixel_loop_yu16"
    ELSE "NULL"

camera_pixels_per_chunk(format) ==
    IF format = FORMAT_YUYV \/ format = FORMAT_RGB565 THEN 2
    ELSE IF format = FORMAT_YUV422 THEN 2
    ELSE 1

(***************************************************************************)
(* Bounds and input sets                                                   *)
(***************************************************************************)
\* Caller buffers are numbered 1..NumBufs; see BufFormat for their layout.
NumBufs == 4

\* Completion callbacks 1..NumCallbacks and user-data pointers 1..NumUserData.
NumCallbacks == 1

NumUserData == 1

\* The ghost count of outstanding requests is not tracked beyond this value.
MaxOutstanding == 2

Cams == {0, 1}

PIOs == {0, 1}

Planes == 0 .. (CAMERA_MAX_N_PLANES - 1)

SMs == 0 .. 3

Channels == 0 .. (NUM_DMA_CHANNELS - 1)

Bufs == 1 .. NumBufs

Callbacks == 1 .. NumCallbacks

UserData == 1 .. NumUserData

Formats == {FORMAT_RGB565, FORMAT_YUV422, FORMAT_YUYV, FORMAT_OTHER}

\* (width, height) pairs offered to configure: the supported one and 40x30.
Geometries == {<<CAMERA_WIDTH_DIV8, CAMERA_HEIGHT_DIV8>>, <<CAMERA_WIDTH_DIV8 \div 2, CAMERA_HEIGHT_DIV8 \div 2>>}

\* struct camera_buffer as filled by camera_buffer_alloc(format, width, height):
\* buffers 1, 2, 4, 5 are 80x60 in the four format codes, buffer 3 is a
\* 40x30 RGB565 buffer, buffer 6 is a zero-initialised static buffer and
\* the following ones are 40x30.
BufFormat(b) ==
    CASE b = 1 -> FORMAT_RGB565
      [] b = 2 -> FORMAT_YUV422
      [] b = 3 -> FORMAT_RGB565
      [] b = 4 -> FORMAT_OTHER
      [] b = 5 -> FORMAT_YUYV
      [] b = 6 -> 0
      [] OTHER -> FORMAT_YUV422

BufWidth(b) ==
    IF b \in {1, 2, 4, 5} THEN CAMERA_WIDTH_DIV8
    ELSE IF b = 6 THEN 0
    ELSE CAMERA_WIDTH_DIV8 \div 2

BufHeight(b) ==
    IF b \in {1, 2, 4, 5} THEN CAMERA_HEIGHT_DIV8
    ELSE IF b = 6 THEN 0
    ELSE CAMERA_HEIGHT_DIV8 \div 2

\* buf->sizes[plane] and whether buf->data[plane] is an allocated region.
BufSize(b, plane) ==
    IF plane < format_num_planes(BufFormat(b))
    THEN format_plane_size(BufFormat(b), plane, BufWidth(b), BufHeight(b))
    ELSE 0

BufHasPlane(b, plane) == plane < format_num_planes(BufFormat(b))

\* struct camera_platform_config: the PIO instance and the DMA base channel
\* (-1 asks for dynamically claimed channels).
\* Context c is wired to PIO instance c and asks for its DMA channels from
\* one of the given bases.
PlatformConfigs(c, bases) == [pio : {c}, base_dma_channel : bases]

NoPlatform == [pio |-> -1, base_dma_channel |-> -1]

\* DMA channels claimed by other drivers of the firmware before the camera
\* is initialised.
ForeignChannels == {1}

(***************************************************************************)
(* State                                                                   *)
(***************************************************************************)
VARIABLES
    \* struct camera, one per context
    platform,           \* driver_host.platform: the platform configuration
    frame_offset,       \* load offset of the frame-timing program
    shift_byte_offset,  \* load offset of the byte-shift program
    dma_channels,       \* dma_channels[plane]
    config,             \* struct camera_config
    pending,            \* buffer being filled, NULL when idle
    pending_cb,         \* completion callback of the pending request
    cb_data,            \* user data of the pending request
    \* process-wide and hardware state
    irq_ctxs,           \* irq_ctxs[pio]: context served by the PIO's handler
    irq_enabled,        \* NVIC enable bit of PIOx_IRQ_0
    pio_inte0,          \* pio->inte0 routes the frame SM's flag to PIOx_IRQ_0
    pio_irq,            \* PIO interrupt flag 0 of the instance
    isr,                \* PIO instance whose handler is running, or NoIsr
    instr_used,         \* occupied PIO instruction slots of the instance
    sm_enabled,         \* sm_enabled[pio][sm]
    pixel_loop,         \* subroutine patched into the loaded frame program
    frame_trig,         \* triggers (loops, rows) given to the frame SM
    dma_claimed,        \* claimed DMA channels
    dma_ch,             \* per-channel transfer programmed by dma_channel_configure
    sensor,             \* colour space and size written to the sensor
    \* foreground control and observation
    life,               \* lifecycle of a context as seen by its caller
    fg,                 \* foreground position inside camera_do_frame
    call,               \* the API call made last and its return value
    req,                \* the request accepted last by camera_do_frame
    outstanding,        \* accepted requests neither completed nor discarded
    completions,        \* handler completions since the last frame trigger
    cb_count,           \* callback invocations since the last acceptance
    cb_ok,              \* each of them got the accepted request's arguments
    \* the C heap and the caller's buffers
    heap,               \* live regions handed out by malloc
    abuf,               \* struct camera_buffer records the caller holds
    alloc_ret,          \* the camera_buffer_alloc / _free call made last
    \* format calculus
    calc,               \* arguments and results of the format.c functions
    \* sensor probe
    probe,              \* camera_detect: its locals and the bus outcomes it has met
    \* interrupt context
    nested              \* the capture call made by the completion callback last run

cam_vars == <<platform, frame_offset, shift_byte_offset, dma_channels, config, pending, pending_cb, cb_data>>

hw_vars == <<irq_ctxs, irq_enabled, pio_inte0, pio_irq, isr, instr_used, sm_enabled, pixel_loop, frame_trig, dma_claimed, dma_ch, sensor>>

obs_vars == <<life, fg, call, req, outstanding, completions, cb_count, cb_ok>>

mem_vars == <<heap, abuf, alloc_ret, calc, probe>>

vars == <<cam_vars, hw_vars, obs_vars, mem_vars, nested>>

\* dma_channel_config and pio_sm_config values of a zeroed struct camera.
ZeroDmaCfg == [data_size |-> 0, read_incr |-> FALSE, write_incr |-> FALSE, dreq |-> 0, chain_to |-> 0]

ZeroSmCfg == [program |-> "none", sm |-> 0, offset |-> 0, bits |-> 0]

ZeroConfig ==
    [format |-> 0, width |-> 0, height |-> 0,
     dma_transfers |-> [i \in Planes |-> 0],
     dma_offset |-> [i \in Planes |-> 0],
     dma_cfgs |-> [i \in Planes |-> ZeroDmaCfg],
     sm_cfgs |-> [s \in SMs |-> ZeroSmCfg]]

IdleDma == [busy |-> FALSE, buf |-> NULL, plane |-> 0, rxf_pio |-> 0, rxf_sm |-> 0, offset |-> 0, count |-> 0, data_size |-> 0]

IdleFg == [pc |-> "idle", cam |-> 0, buf |-> NULL, cb |-> NULL, data |-> NULL, allow |-> FALSE, blocking |-> FALSE]

NoCam == 0 - 1

NoIsr == 0 - 1

NoReq == [buf |-> NULL, cb |-> NULL, data |-> NULL]

\* No call is returning: the caller is between two calls, or inside one.
NoCall == [op |-> "none", ret |-> 0, cam |-> 0, width |-> 0, height |-> 0, repeated |-> FALSE]

\* The heap has MaxRegions regions; the caller keeps at most MaxHeld buffers.
MaxRegions == 5

MaxHeld == 1

Regions == 1 .. MaxRegions

Slots == 1 .. MaxHeld

\* A region of the heap held by the rest of the program.
ForeignRegions == {2}

\* A zeroed struct camera_buffer; rec is the region of the record itself
\* (NULL: no buffer).
NoBuf ==
    [rec |-> NULL, format |-> 0, width |-> 0, height |-> 0,
     strides |-> [i \in Planes |-> 0], sizes |-> [i \in Planes |-> 0], data |-> [i \in Planes |-> NULL]]

NoAlloc == [op |-> "none", format |-> 0, width |-> 0, height |-> 0, fail |-> 0, buf |-> NoBuf]

\* Arguments offered to the format.c functions: the supported codes, three
\* other codes, planes 0..3 and 255, widths 0..MaxWidth and 80, heights
\* 0..MaxHeight and 60.
MaxWidth == 5

MaxHeight == 3

CalcFormats == Formats \cup {0, FORMAT_RGB565 + 1}

CalcPlanes == (0 .. CAMERA_MAX_N_PLANES) \cup {255}

CalcWidths == (0 .. MaxWidth) \cup {CAMERA_WIDTH_DIV8}

CalcHeights == (0 .. MaxHeight) \cup {CAMERA_HEIGHT_DIV8}

\* The completion callback has made no call.
NoNested == [made |-> FALSE, ret |-> 0]

\* camera_detect (src/camera.c:100-127)
OV7670_PID == 118

DetectTries == 5

\* Bytes the identification register can deliver.
IdBytes == {0, 117, OV7670_PID}

\* What the bus does in one attempt: the write is acknowledged or not (w), the
\* read delivers its byte or not (r), and the byte delivered (val). A
\* transaction that does not return 1 has transferred no byte.
BusOutcomes ==
    {[w |-> FALSE, r |-> FALSE, val |-> 0], [w |-> TRUE, r |-> FALSE, val |-> 0]}
        \cup {[w |-> TRUE, r |-> TRUE, val |-> v] : v \in IdBytes}

\* camera_detect at its entry: val = 0, tries = 5, no bus traffic yet.
DetectEntry == [pc |-> "loop", tries |-> DetectTries, val |-> 0, bus |-> << >>, ret |-> FALSE]

NoCalc == [format |-> 0, plane |-> 0, width |-> 0, height |-> 0, num_planes |-> 0, bytes_per_pixel |-> 0, hsub |-> 1, stride |-> 0, plane_size |-> 0]

\* What a context's caller has done with it: "new" (never initialised),
\* "failed" (camera_init returned -1), "active", "terminated".
Init ==
    /\ platform = [c \in Cams |-> NoPlatform]
    /\ frame_offset = [c \in Cams |-> 0]
    /\ shift_byte_offset = [c \in Cams |-> 0]
    /\ dma_channels = [c \in Cams |-> [i \in Planes |-> 0]]
    /\ config = [c \in Cams |-> ZeroConfig]
    /\ pending = [c \in Cams |-> NULL]
    /\ pending_cb = [c \in Cams |-> NULL]
    /\ cb_data = [c \in Cams |-> NULL]
    /\ irq_ctxs = [p \in PIOs |-> NoCam]
    /\ irq_enabled = [p \in PIOs |-> FALSE]
    /\ pio_inte0 = [p \in PIOs |-> FALSE]
    /\ pio_irq = [p \in PIOs |-> FALSE]
    /\ isr = NoIsr
    /\ instr_used = [p \in PIOs |-> 0]
    /\ sm_enabled = [p \in PIOs |-> [s \in SMs |-> FALSE]]
    /\ pixel_loop = [p \in PIOs |-> "none"]
    /\ frame_trig = [p \in PIOs |-> <<>>]
    /\ dma_claimed = ForeignChannels
    /\ dma_ch = [ch \in Channels |-> IdleDma]
    /\ sensor = [c \in Cams |-> [started |-> FALSE, colorspace |-> 0, size |-> 0]]
    /\ life = [c \in Cams |-> "new"]
    /\ fg = IdleFg
    /\ call = NoCall
    /\ req = [c \in Cams |-> NoReq]
    /\ outstanding = [c \in Cams |-> 0]
    /\ completions = [c \in Cams |-> 0]
    /\ cb_count = [c \in Cams |-> 0]
    /\ cb_ok = [c \in Cams |-> TRUE]
    /\ heap = ForeignRegions
    /\ abuf = [s \in Slots |-> NoBuf]
    /\ alloc_ret = NoAlloc
    /\ calc = NoCalc
    /\ probe = DetectEntry
    /\ nested = NoNested

\* The record of a call that returns ret to its caller.
Called(op, ret, c, width, height) ==
    [op |-> op, ret |-> ret, cam |-> c, width |-> width, height |-> height, repeated |-> FALSE]

\* The foreground runs (no handler has preempted it) at position pc.
FgAt(pc) == isr = NoIsr /\ fg.pc = pc

\* The foreground is between two calls.
Idle == FgAt("idle") /\ call = NoCall

(***************************************************************************)
(* Resource lifecycle: camera_init                                         *)
(***************************************************************************)
\* dma_claim_unused_channel(true): the lowest unclaimed channel.
LowestFree(claimed) == CHOOSE ch \in Channels \ claimed : \A o \in Channels \ claimed : ch <= o

\* A claim loop that takes every channel from the pool of unused channels,
\* whatever base the platform configuration names.
RECURSIVE ClaimPlanes_from_pool(_, _, _, _)
ClaimPlanes_from_pool(base, i, claimed, chans) ==
    IF i = CAMERA_MAX_N_PLANES THEN [ok |-> TRUE, claimed |-> claimed, chans |-> chans]
    ELSE IF Channels \ claimed = {}
         THEN [ok |-> FALSE, claimed |-> claimed, chans |-> chans]
         ELSE ClaimPlanes_from_pool(base, i + 1, claimed \cup {LowestFree(claimed)}, [chans EXCEPT ![i] = LowestFree(claimed)])

\* Lines 163-172: the channel of plane i and the claim set after claiming
\* the planes below i; ok is FALSE when a claim panics (a channel of the
\* base range is taken, or no channel is free).
RECURSIVE ClaimPlanes(_, _, _, _)
ClaimPlanes(base, i, claimed, chans) ==
    IF i = CAMERA_MAX_N_PLANES THEN [ok |-> TRUE, claimed |-> claimed, chans |-> chans]
    ELSE IF base >= 0
         THEN IF (base + i) \in claimed \/ (base + i) \notin Channels
              THEN [ok |-> FALSE, claimed |-> claimed, chans |-> chans]
              ELSE ClaimPlanes(base, i + 1, claimed \cup {base + i}, [chans EXCEPT ![i] = base + i])
         ELSE IF Channels \ claimed = {}
              THEN [ok |-> FALSE, claimed |-> claimed, chans |-> chans]
              ELSE ClaimPlanes(base, i + 1, claimed \cup {LowestFree(claimed)}, [chans EXCEPT ![i] = LowestFree(claimed)])

\* pio_add_program: the program is placed below the ones already loaded;
\* the offset is -1 when it does not fit (the SDK panics).
pio_add_program(used, len) ==
    IF used + len > PIO_INSTRUCTION_COUNT THEN 0 - 1
    ELSE PIO_INSTRUCTION_COUNT - used - len

\* camera_init may be called on a context that is not in use.
CanInit(c) == Idle /\ life[c] \in {"new", "failed", "terminated"}

\* A camera_init that claims its DMA channels before it probes the sensor.
camera_init_undetected_claiming(c, params) ==
    LET claim == ClaimPlanes(params.base_dma_channel, 0, dma_claimed, [i \in Planes |-> 0]) IN
    /\ CanInit(c)
    /\ platform' = [platform EXCEPT ![c] = params]
    /\ frame_offset' = [frame_offset EXCEPT ![c] = 0]
    /\ shift_byte_offset' = [shift_byte_offset EXCEPT ![c] = 0]
    /\ dma_claimed' = claim.claimed
    /\ dma_channels' = [dma_channels EXCEPT ![c] = claim.chans]
    /\ config' = [config EXCEPT ![c] = ZeroConfig]
    /\ pending' = [pending EXCEPT ![c] = NULL]
    /\ pending_cb' = [pending_cb EXCEPT ![c] = NULL]
    /\ cb_data' = [cb_data EXCEPT ![c] = NULL]
    /\ life' = [life EXCEPT ![c] = "failed"]
    /\ call' = Called("init", 0 - 1, c, 0, 0)
    /\ UNCHANGED <<irq_ctxs, irq_enabled, pio_inte0, pio_irq, isr, instr_used, sm_enabled, pixel_loop, frame_trig, dma_ch, sensor>>
    /\ UNCHANGED <<fg, req, outstanding, completions, cb_count, cb_ok>>
    /\ UNCHANGED <<mem_vars, nested>>

\* Lines 139-155: the context is zeroed, the platform recorded, and the
\* probe does not find the sensor: -1.
camera_init_undetected(c, params) ==
    /\ CanInit(c)
    /\ platform' = [platform EXCEPT ![c] = params]
    /\ frame_offset' = [frame_offset EXCEPT ![c] = 0]
    /\ shift_byte_offset' = [shift_byte_offset EXCEPT ![c] = 0]
    /\ dma_channels' = [dma_channels EXCEPT ![c] = [i \in Planes |-> 0]]
    /\ config' = [config EXCEPT ![c] = ZeroConfig]
    /\ pending' = [pending EXCEPT ![c] = NULL]
    /\ pending_cb' = [pending_cb EXCEPT ![c] = NULL]
    /\ cb_data' = [cb_data EXCEPT ![c] = NULL]
    /\ life' = [life EXCEPT ![c] = "failed"]
    /\ call' = Called("init", 0 - 1, c, 0, 0)
    /\ UNCHANGED <<hw_vars, fg, req, outstanding, completions, cb_count, cb_ok>>
    /\ UNCHANGED <<mem_vars, nested>>

\* Lines 139-179 with the sensor detected.  OV7670_begin writes the RGB
\* colour space and the DIV8 size and returns OV7670_STATUS_OK; the three
\* channels are claimed, both programs loaded, the interrupt wired.
camera_init_detected(c, params) ==
    LET claim == ClaimPlanes(params.base_dma_channel, 0, dma_claimed, [i \in Planes |-> 0])
        p == params.pio
        sb == pio_add_program(instr_used[p], ReadByteProgramLen)
        fo == pio_add_program(instr_used[p] + ReadByteProgramLen, FrameProgramLen)
        loaded == claim.ok /\ sb >= 0 /\ fo >= 0
    IN
    /\ CanInit(c)
    /\ platform' = [platform EXCEPT ![c] = params]
    /\ config' = [config EXCEPT ![c] = ZeroConfig]
    /\ pending' = [pending EXCEPT ![c] = NULL]
    /\ pending_cb' = [pending_cb EXCEPT ![c] = NULL]
    /\ cb_data' = [cb_data EXCEPT ![c] = NULL]
    /\ sensor' = [sensor EXCEPT ![c] = [started |-> TRUE, colorspace |-> OV7670_COLOR_RGB, size |-> OV7670_SIZE_DIV8]]
    /\ dma_claimed' = claim.claimed
    /\ dma_channels' = [dma_channels EXCEPT ![c] = claim.chans]
    /\ shift_byte_offset' = [shift_byte_offset EXCEPT ![c] = IF claim.ok /\ sb >= 0 THEN sb ELSE 0]
    /\ frame_offset' = [frame_offset EXCEPT ![c] = IF loaded THEN fo ELSE 0]
    /\ instr_used' = [instr_used EXCEPT ![p] =
            IF loaded THEN @ + ReadByteProgramLen + FrameProgramLen
            ELSE IF claim.ok /\ sb >= 0 THEN @ + ReadByteProgramLen
            ELSE @]
    /\ pio_inte0' = [pio_inte0 EXCEPT ![p] = IF loaded THEN TRUE ELSE @]
    /\ irq_ctxs' = [irq_ctxs EXCEPT ![p] = IF loaded THEN c ELSE @]
    /\ irq_enabled' = [irq_enabled EXCEPT ![p] = IF loaded THEN TRUE ELSE @]
    /\ life' = [life EXCEPT ![c] = IF loaded THEN "active" ELSE "panicked"]
    /\ fg' = IF loaded THEN fg ELSE [fg EXCEPT !.pc = "panic"]
    /\ call' = IF loaded THEN Called("init", 0, c, 0, 0) ELSE NoCall
    /\ UNCHANGED <<pio_irq, isr, sm_enabled, pixel_loop, frame_trig, dma_ch, req, outstanding, completions, cb_count, cb_ok>>
    /\ UNCHANGED <<mem_vars, nested>>

(***************************************************************************)
(* Resource lifecycle: camera_term                                         *)
(***************************************************************************)
\* Lines 208-214: the channels camera_term hands to dma_channel_unclaim.
TermUnclaimed(c) == {dma_channels[c][i] : i \in {j \in Planes : dma_channels[c][j] >= 0}}

\* A camera_term that disables the frame machine only.
TermSmEnabled_frame_only(c, p) ==
    [s \in SMs |-> IF s = CAMERA_PIO_FRAME_SM THEN FALSE ELSE sm_enabled[p][s]]

\* Lines 193-197: the state machines left enabled by camera_term.
TermSmEnabled(c, p) ==
    [s \in SMs |-> IF s = CAMERA_PIO_FRAME_SM \/ (s >= 1 /\ s <= format_num_planes(config[c].format))
                   THEN FALSE ELSE sm_enabled[p][s]]

\* A camera_term that completes the pending request: it calls the stored
\* callback and leaves callback and user data in place.
camera_term_completing(c) ==
    LET p == platform[c].pio IN
    /\ Idle
    /\ life[c] \in {"failed", "active", "terminated"}
    /\ sm_enabled' = [sm_enabled EXCEPT ![p] = TermSmEnabled(c, p)]
    /\ irq_enabled' = [irq_enabled EXCEPT ![p] = FALSE]
    /\ irq_ctxs' = [irq_ctxs EXCEPT ![p] = NoCam]
    /\ dma_claimed' = dma_claimed \ TermUnclaimed(c)
    /\ dma_channels' = [dma_channels EXCEPT ![c] = [i \in Planes |-> IF @[i] >= 0 THEN 0 - 1 ELSE @[i]]]
    /\ pending' = [pending EXCEPT ![c] = NULL]
    /\ cb_count' = [cb_count EXCEPT ![c] = IF pending[c] # NULL /\ pending_cb[c] # NULL /\ @ < MaxOutstanding THEN @ + 1 ELSE @]
    /\ outstanding' = [outstanding EXCEPT ![c] = IF pending[c] # NULL /\ @ > 0 THEN @ - 1 ELSE @]
    /\ life' = [life EXCEPT ![c] = "terminated"]
    /\ call' = [Called("term", 0, c, 0, 0) EXCEPT !.repeated = (life[c] = "terminated")]
    /\ req' = [req EXCEPT ![c] = NoReq]
    /\ UNCHANGED <<platform, frame_offset, shift_byte_offset, config, pending_cb, cb_data, pio_inte0, pio_irq, isr, instr_used, pixel_loop, frame_trig, dma_ch, sensor, fg, completions, cb_ok>>
    /\ UNCHANGED <<mem_vars, nested>>

\* A camera_term that leaves the channel numbers in the context.
camera_term_keeping_channels(c) ==
    LET p == platform[c].pio IN
    /\ Idle
    /\ life[c] \in {"failed", "active", "terminated"}
    /\ sm_enabled' = [sm_enabled EXCEPT ![p] = TermSmEnabled(c, p)]
    /\ irq_enabled' = [irq_enabled EXCEPT ![p] = FALSE]
    /\ irq_ctxs' = [irq_ctxs EXCEPT ![p] = NoCam]
    /\ dma_claimed' = dma_claimed \ TermUnclaimed(c)
    /\ dma_channels' = dma_channels
    /\ pending' = [pending EXCEPT ![c] = NULL]
    /\ pending_cb' = [pending_cb EXCEPT ![c] = NULL]
    /\ cb_data' = [cb_data EXCEPT ![c] = NULL]
    /\ outstanding' = [outstanding EXCEPT ![c] = IF pending[c] # NULL /\ @ > 0 THEN @ - 1 ELSE @]
    /\ life' = [life EXCEPT ![c] = "terminated"]
    /\ call' = [Called("term", 0, c, 0, 0) EXCEPT !.repeated = (life[c] = "terminated")]
    /\ req' = [req EXCEPT ![c] = NoReq]
    /\ UNCHANGED <<platform, frame_offset, shift_byte_offset, config, pio_inte0, pio_irq, isr, instr_used, pixel_loop, frame_trig, dma_ch, sensor, fg, completions, cb_count, cb_ok>>
    /\ UNCHANGED <<mem_vars, nested>>

\* camera_term needs the platform pointer that camera_init stored.
camera_term(c) ==
    LET p == platform[c].pio IN
    /\ Idle
    /\ life[c] \in {"failed", "active", "terminated"}
    /\ sm_enabled' = [sm_enabled EXCEPT ![p] = TermSmEnabled(c, p)]
    /\ irq_enabled' = [irq_enabled EXCEPT ![p] = FALSE]
    /\ irq_ctxs' = [irq_ctxs EXCEPT ![p] = NoCam]
    /\ dma_claimed' = dma_claimed \ TermUnclaimed(c)
    /\ dma_channels' = [dma_channels EXCEPT ![c] = [i \in Planes |-> IF @[i] >= 0 THEN 0 - 1 ELSE @[i]]]
    /\ pending' = [pending EXCEPT ![c] = NULL]
    /\ pending_cb' = [pending_cb EXCEPT ![c] = NULL]
    /\ cb_data' = [cb_data EXCEPT ![c] = NULL]
    /\ outstanding' = [outstanding EXCEPT ![c] = IF pending[c] # NULL /\ @ > 0 THEN @ - 1 ELSE @]
    /\ life' = [life EXCEPT ![c] = "terminated"]
    /\ call' = [Called("term", 0, c, 0, 0) EXCEPT !.repeated = (life[c] = "terminated")]
    /\ req' = [req EXCEPT ![c] = NoReq]
    /\ UNCHANGED <<platform, frame_offset, shift_byte_offset, config, pio_inte0, pio_irq, isr, instr_used, pixel_loop, frame_trig, dma_ch, sensor, fg, completions, cb_count, cb_ok>>
    /\ UNCHANGED <<mem_vars, nested>>

(***************************************************************************)
(* camera_configure                                                        *)
(***************************************************************************)
\* A size check that lets every size up to DIV8 through.
SupportedSize_at_most(width, height) == width <= CAMERA_WIDTH_DIV8 /\ height <= CAMERA_HEIGHT_DIV8

\* Line 325: only the DIV8 resolution is accepted.
SupportedSize(width, height) == width = CAMERA_WIDTH_DIV8 /\ height = CAMERA_HEIGHT_DIV8

\* pio_get_dreq(pio, sm, false): the receive data-request line of a state machine.
pio_get_dreq(p, sm) == p * 8 + 4 + sm

\* camera_pio_get_frame_sm_config and camera_pio_get_read_byte_sm_config
\* build a state-machine configuration from their arguments.
camera_pio_get_frame_sm_config(sm, offset) == [program |-> "frame", sm |-> sm, offset |-> offset, bits |-> 0]

camera_pio_get_read_byte_sm_config(sm, offset, bits) == [program |-> "read_byte", sm |-> sm, offset |-> offset, bits |-> bits]

\* Lines 340-348: the DMA channel configuration of plane i.
PlaneDmaCfg(c, format, i) ==
    [data_size |-> camera_transfer_size(format, i), read_incr |-> FALSE, write_incr |-> TRUE,
     dreq |-> pio_get_dreq(platform[c].pio, i + 1), chain_to |-> dma_channels[c][i]]

\* A configure that forgets the entries of plane 0 when the context was
\* configured before.
ConfigureFrom_keeps_first(old, c, format, width, height) ==
    LET n == format_num_planes(format)
        bytes(i) == dma_transfer_size_to_bytes(camera_transfer_size(format, i))
        kept(i) == i >= n \/ (i = 0 /\ old.width # 0)
    IN [format |-> format, width |-> width, height |-> height,
        dma_transfers |-> [i \in Planes |-> IF kept(i) THEN old.dma_transfers[i] ELSE format_plane_size(format, i, width, height) \div bytes(i)],
        dma_offset |-> [i \in Planes |-> IF kept(i) THEN old.dma_offset[i] ELSE 4 - bytes(i)],
        dma_cfgs |-> [i \in Planes |-> IF kept(i) THEN old.dma_cfgs[i] ELSE PlaneDmaCfg(c, format, i)],
        sm_cfgs |-> [s \in SMs |->
            IF s = CAMERA_PIO_FRAME_SM THEN camera_pio_get_frame_sm_config(CAMERA_PIO_FRAME_SM, frame_offset[c])
            ELSE IF s - 1 < n THEN camera_pio_get_read_byte_sm_config(s, shift_byte_offset[c], bytes(s - 1) * 8)
            ELSE old.sm_cfgs[s]]]

\* Lines 335-361: the cached configuration after a configure that passed
\* the size check, starting from the configuration old.  Only the planes of
\* the new format are written.
ConfigureFrom(old, c, format, width, height) ==
    LET n == format_num_planes(format)
        bytes(i) == dma_transfer_size_to_bytes(camera_transfer_size(format, i))
    IN [format |-> format, width |-> width, height |-> height,
        dma_transfers |-> [i \in Planes |-> IF i < n THEN format_plane_size(format, i, width, height) \div bytes(i) ELSE old.dma_transfers[i]],
        dma_offset |-> [i \in Planes |-> IF i < n THEN 4 - bytes(i) ELSE old.dma_offset[i]],
        dma_cfgs |-> [i \in Planes |-> IF i < n THEN PlaneDmaCfg(c, format, i) ELSE old.dma_cfgs[i]],
        sm_cfgs |-> [s \in SMs |->
            IF s = CAMERA_PIO_FRAME_SM THEN camera_pio_get_frame_sm_config(CAMERA_PIO_FRAME_SM, frame_offset[c])
            ELSE IF s - 1 < n THEN camera_pio_get_read_byte_sm_config(s, shift_byte_offset[c], bytes(s - 1) * 8)
            ELSE old.sm_cfgs[s]]]

\* A configure that adds the new transfer counts to the ones it finds.
ConfiguredConfig_accumulating(c, format, width, height) ==
    LET new == ConfigureFrom(config[c], c, format, width, height)
    IN [new EXCEPT !.dma_transfers = [i \in Planes |-> IF i < format_num_planes(format) THEN config[c].dma_transfers[i] + new.dma_transfers[i] ELSE new.dma_transfers[i]]]

\* The cached configuration of context c after a configure that passed the
\* size check.
ConfiguredConfig(c, format, width, height) == ConfigureFrom(config[c], c, format, width, height)

\* camera_configure's effect on the cached configuration, with its size check.
camera_configure_config(c, format, width, height) ==
    IF SupportedSize(width, height) THEN ConfiguredConfig(c, format, width, height) ELSE config[c]

\* camera_configure's return value.
camera_configure_ret(width, height) == IF SupportedSize(width, height) THEN 0 ELSE 0 - 1

\* Lines 332-333: format and size pushed to the sensor.
camera_configure_sensor(c, format, width, height) ==
    IF SupportedSize(width, height)
    THEN [started |-> sensor[c].started, colorspace |-> ov7670_colorspace_from_format(format), size |-> OV7670_SIZE_DIV8]
    ELSE sensor[c]

\* A camera_pio_configure that enables the byte-shift machine of every
\* plane slot, whatever the format.
camera_pio_configure_enabled_all(format) ==
    [s \in SMs |-> s = CAMERA_PIO_FRAME_SM \/ (s >= 1 /\ s <= CAMERA_MAX_N_PLANES)]

\* camera_pio_configure: all four state machines are disabled and
\* restarted, then the byte-shift machines of the format's planes and the
\* frame machine are initialised and enabled.
camera_pio_configure_enabled(format) ==
    [s \in SMs |-> s = CAMERA_PIO_FRAME_SM \/ (s >= 1 /\ s <= format_num_planes(format))]

\* The hardware part of camera_configure on PIO instance p: state machines,
\* patched pixel loop, flushed queues.
ConfigureHw(c, format, width, height) ==
    LET p == platform[c].pio IN
    IF SupportedSize(width, height)
    THEN /\ sm_enabled' = [sm_enabled EXCEPT ![p] = camera_pio_configure_enabled(format)]
         /\ pixel_loop' = [pixel_loop EXCEPT ![p] = camera_get_pixel_loop(format)]
         /\ frame_trig' = [frame_trig EXCEPT ![p] = <<>>]
         /\ sensor' = [sensor EXCEPT ![c] = camera_configure_sensor(c, format, width, height)]
    ELSE UNCHANGED <<sm_enabled, pixel_loop, frame_trig, sensor>>

\* A camera_configure that abandons the capture in flight: it empties the
\* pending slot before it reprograms the hardware.
camera_configure_resetting(c, format, width, height) ==
    /\ Idle
    /\ life[c] = "active"
    /\ config' = [config EXCEPT ![c] = camera_configure_config(c, format, width, height)]
    /\ ConfigureHw(c, format, width, height)
    /\ pending' = [pending EXCEPT ![c] = NULL]
    /\ call' = [Called("configure", camera_configure_ret(width, height), c, width, height)
                   EXCEPT !.repeated = (<<format, width, height>> = <<config[c].format, config[c].width, config[c].height>>)]
    /\ UNCHANGED <<platform, frame_offset, shift_byte_offset, dma_channels, pending_cb, cb_data>>
    /\ UNCHANGED <<irq_ctxs, irq_enabled, pio_inte0, pio_irq, isr, instr_used, dma_claimed, dma_ch>>
    /\ UNCHANGED <<life, fg, req, outstanding, completions, cb_count, cb_ok>>
    /\ UNCHANGED <<mem_vars, nested>>

\* A direct call of camera_configure on an initialised context.
camera_configure(c, format, width, height) ==
    /\ Idle
    /\ life[c] = "active"
    /\ config' = [config EXCEPT ![c] = camera_configure_config(c, format, width, height)]
    /\ ConfigureHw(c, format, width, height)
    /\ call' = [Called("configure", camera_configure_ret(width, height), c, width, height)
                   EXCEPT !.repeated = (<<format, width, height>> = <<config[c].format, config[c].width, config[c].height>>)]
    /\ UNCHANGED <<platform, frame_offset, shift_byte_offset, dma_channels, pending, pending_cb, cb_data>>
    /\ UNCHANGED <<irq_ctxs, irq_enabled, pio_inte0, pio_irq, isr, instr_used, dma_claimed, dma_ch>>
    /\ UNCHANGED <<life, fg, req, outstanding, completions, cb_count, cb_ok>>
    /\ UNCHANGED <<mem_vars, nested>>

(***************************************************************************)
(* Capture: camera_do_frame and its two entry points                       *)
(***************************************************************************)
\* Lines 399-401: the buffer's triple differs from the configured one.
ConfigMismatch(c, b) ==
    \/ config[c].format # BufFormat(b)
    \/ config[c].width # BufWidth(b)
    \/ config[c].height # BufHeight(b)

\* camera_do_frame without the test of the pending slot.
camera_do_frame_check_no_busy(c, b, allow_reconfigure) ==
    IF ConfigMismatch(c, b) /\ ~allow_reconfigure THEN 0 - 1 ELSE 0

\* camera_do_frame overwriting the slot of a request with a callback.
camera_do_frame_check_busy_polled(c, b, allow_reconfigure) ==
    IF pending[c] # NULL /\ pending_cb[c] = NULL THEN 0 - 2
    ELSE IF ConfigMismatch(c, b) /\ ~allow_reconfigure THEN 0 - 1
    ELSE 0

\* camera_do_frame reconfiguring whatever allow_reconfigure says.
camera_do_frame_check_always_allowed(c, b, allow_reconfigure) ==
    IF pending[c] # NULL THEN 0 - 2 ELSE 0

\* Lines 395-407: what camera_do_frame decides before it touches the
\* hardware: -2 (busy), -1 (reconfiguration not allowed) or 0 (go on).
camera_do_frame_check(c, b, allow_reconfigure) ==
    IF pending[c] # NULL THEN 0 - 2
    ELSE IF ConfigMismatch(c, b) /\ ~allow_reconfigure THEN 0 - 1
    ELSE 0

\* Line 403: the configuration the capture goes on with.  The return value
\* of the implicit camera_configure is not looked at.
DoFrameConfig(c, b) ==
    IF ConfigMismatch(c, b)
    THEN camera_configure_config(c, BufFormat(b), BufWidth(b), BufHeight(b))
    ELSE config[c]

\* Lines 411-419: dma_channel_configure(..., true) for each plane of the
\* configured format, writing to buf->data[i].
ArmedDma(c, b, cfg) ==
    LET n == format_num_planes(cfg.format)
        planesOf(ch) == {i \in Planes : i < n /\ dma_channels[c][i] = ch}
        last(ch) == CHOOSE i \in planesOf(ch) : \A j \in planesOf(ch) : j <= i
    IN [ch \in Channels |->
          IF planesOf(ch) = {} THEN dma_ch[ch]
          ELSE [busy |-> TRUE, buf |-> b, plane |-> last(ch),
                rxf_pio |-> platform[c].pio, rxf_sm |-> last(ch) + 1,
                offset |-> cfg.dma_offset[last(ch)], count |-> cfg.dma_transfers[last(ch)],
                data_size |-> cfg.dma_cfgs[last(ch)].data_size]]

CallName(blocking) == IF blocking THEN "capture_blocking" ELSE "capture_with_cb"

\* Lines 395-421: the checks, the implicit configure and the DMA set-up.
\* A rejected call returns at once; an accepted one goes on to line 423.
camera_do_frame(c, b, complete_cb, data, allow_reconfigure, blocking) ==
    LET chk == camera_do_frame_check(c, b, allow_reconfigure)
        cfg == DoFrameConfig(c, b)
    IN
    /\ Idle
    /\ life[c] = "active"
    /\ IF chk # 0
       THEN /\ call' = Called(CallName(blocking), chk, c, 0, 0)
            /\ UNCHANGED <<cam_vars, hw_vars, life, fg, req, outstanding, completions, cb_count, cb_ok>>
       ELSE /\ config' = [config EXCEPT ![c] = cfg]
            /\ IF ConfigMismatch(c, b)
               THEN ConfigureHw(c, BufFormat(b), BufWidth(b), BufHeight(b))
               ELSE UNCHANGED <<sm_enabled, pixel_loop, frame_trig, sensor>>
            /\ dma_ch' = ArmedDma(c, b, cfg)
            /\ fg' = [pc |-> "store_pending", cam |-> c, buf |-> b, cb |-> complete_cb, data |-> data, allow |-> allow_reconfigure, blocking |-> blocking]
            /\ req' = [req EXCEPT ![c] = [buf |-> b, cb |-> complete_cb, data |-> data]]
            /\ completions' = [completions EXCEPT ![c] = 0]
            /\ cb_count' = [cb_count EXCEPT ![c] = 0]
            /\ cb_ok' = [cb_ok EXCEPT ![c] = TRUE]
            /\ UNCHANGED <<platform, frame_offset, shift_byte_offset, dma_channels, pending, pending_cb, cb_data>>
            /\ UNCHANGED <<irq_ctxs, irq_enabled, pio_inte0, pio_irq, isr, instr_used, dma_claimed>>
            /\ UNCHANGED <<life, call, outstanding>>
    /\ UNCHANGED <<mem_vars, nested>>

\* camera_capture_blocking: no callback, no user data, blocking.
camera_capture_blocking(c, into, allow_reconfigure) ==
    camera_do_frame(c, into, NULL, NULL, allow_reconfigure, TRUE)

\* camera_capture_with_cb: returns once the frame program is triggered.
camera_capture_with_cb(c, into, allow_reconfigure, complete_cb, data) ==
    camera_do_frame(c, into, complete_cb, data, allow_reconfigure, FALSE)

\* Line 423: camera->pending = buf.
do_frame_store_pending ==
    /\ FgAt("store_pending")
    /\ pending' = [pending EXCEPT ![fg.cam] = fg.buf]
    /\ outstanding' = [outstanding EXCEPT ![fg.cam] = IF @ < MaxOutstanding THEN @ + 1 ELSE @]
    /\ fg' = [fg EXCEPT !.pc = "store_cb"]
    /\ UNCHANGED <<platform, frame_offset, shift_byte_offset, dma_channels, config, pending_cb, cb_data>>
    /\ UNCHANGED <<hw_vars, life, call, req, completions, cb_count, cb_ok>>
    /\ UNCHANGED <<mem_vars, nested>>

\* Line 424: camera->pending_cb = complete_cb.
do_frame_store_cb ==
    /\ FgAt("store_cb")
    /\ pending_cb' = [pending_cb EXCEPT ![fg.cam] = fg.cb]
    /\ fg' = [fg EXCEPT !.pc = "store_data"]
    /\ UNCHANGED <<platform, frame_offset, shift_byte_offset, dma_channels, config, pending, cb_data>>
    /\ UNCHANGED <<hw_vars, life, call, req, outstanding, completions, cb_count, cb_ok>>
    /\ UNCHANGED <<mem_vars, nested>>

\* Line 425: camera->cb_data = cb_data.
do_frame_store_data ==
    /\ FgAt("store_data")
    /\ cb_data' = [cb_data EXCEPT ![fg.cam] = fg.data]
    /\ fg' = [fg EXCEPT !.pc = "trigger"]
    /\ UNCHANGED <<platform, frame_offset, shift_byte_offset, dma_channels, config, pending, pending_cb>>
    /\ UNCHANGED <<hw_vars, life, call, req, outstanding, completions, cb_count, cb_ok>>
    /\ UNCHANGED <<mem_vars, nested>>

\* Line 421: num_loops = buf->width / camera_pixels_per_chunk(buf->format).
NumLoops(b) == BufWidth(b) \div camera_pixels_per_chunk(BufFormat(b))

\* Lines 427-435: camera_pio_trigger_frame hands (num_loops, height) to the
\* frame state machine; the non-blocking call returns 0, the blocking one
\* starts polling.
do_frame_trigger ==
    LET p == platform[fg.cam].pio IN
    /\ FgAt("trigger")
    /\ frame_trig' = [frame_trig EXCEPT ![p] = Append(@, <<NumLoops(fg.buf), BufHeight(fg.buf)>>)]
    /\ completions' = [completions EXCEPT ![fg.cam] = 0]
    /\ IF fg.blocking
       THEN /\ fg' = [fg EXCEPT !.pc = "poll"]
            /\ call' = call
       ELSE /\ fg' = IdleFg
            /\ call' = Called("capture_with_cb", 0, fg.cam, 0, 0)
    /\ UNCHANGED <<cam_vars, irq_ctxs, irq_enabled, pio_inte0, pio_irq, isr, instr_used, sm_enabled, pixel_loop, dma_claimed, dma_ch, sensor>>
    /\ UNCHANGED <<life, req, outstanding, cb_count, cb_ok>>
    /\ UNCHANGED <<mem_vars, nested>>

\* Lines 430-435: the polling loop ends when the slot reads empty.
do_frame_poll_return ==
    /\ FgAt("poll")
    /\ pending[fg.cam] = NULL
    /\ fg' = IdleFg
    /\ call' = Called("capture_blocking", 0, fg.cam, 0, 0)
    /\ UNCHANGED <<cam_vars, hw_vars, life, req, outstanding, completions, cb_count, cb_ok>>
    /\ UNCHANGED <<mem_vars, nested>>

\* The caller takes the return value and goes on.
api_return ==
    /\ isr = NoIsr
    /\ call # NoCall
    /\ call' = NoCall
    /\ UNCHANGED <<cam_vars, hw_vars, life, fg, req, outstanding, completions, cb_count, cb_ok>>
    /\ UNCHANGED <<mem_vars, nested>>

(***************************************************************************)
(* Completion interrupt and the frame-timing program                       *)
(***************************************************************************)
\* A handler that completes a request only when it carries a callback.
IsrCompletes_with_callback(p) ==
    irq_ctxs[p] # NoCam /\ pending[irq_ctxs[p]] # NULL /\ pending_cb[irq_ctxs[p]] # NULL

\* A handler that leaves the slot alone while the foreground is inside
\* camera_do_frame.
IsrCompletes_when_idle(p) ==
    irq_ctxs[p] # NoCam /\ pending[irq_ctxs[p]] # NULL /\ fg.pc = "idle"

\* __camera_isr finds a context with a pending request.
IsrCompletes(p) == irq_ctxs[p] # NoCam /\ pending[irq_ctxs[p]] # NULL

\* __camera_isr calls the stored callback.
IsrCallsBack(p) == IsrCompletes(p) /\ pending_cb[irq_ctxs[p]] # NULL

\* Line 41: the function called and its two arguments, read from the slot
\* while it is still occupied.
CallbackArgs(c) == <<pending_cb[c], pending[c], cb_data[c]>>

\* camera_isr_pio0 / camera_isr_pio1, lines 50-51 and 59-60: the handler
\* of PIOx_IRQ_0 is entered when the flag is raised, routed by inte0 and
\* enabled in the NVIC, and runs __camera_isr on the registered context.
camera_isr_pio(p) ==
    LET c == irq_ctxs[p] IN
    /\ isr = NoIsr
    /\ pio_irq[p] /\ pio_inte0[p] /\ irq_enabled[p]
    /\ isr' = p
    /\ IF IsrCompletes(p)
       THEN /\ pending' = [pending EXCEPT ![c] = NULL]
            /\ completions' = [completions EXCEPT ![c] = IF @ < MaxOutstanding THEN @ + 1 ELSE @]
            /\ outstanding' = [outstanding EXCEPT ![c] = IF @ > 0 THEN @ - 1 ELSE @]
            /\ req' = [req EXCEPT ![c] = NoReq]
            /\ IF IsrCallsBack(p)
               THEN /\ cb_ok' = [cb_ok EXCEPT ![c] = @ /\ CallbackArgs(c) = <<req[c].cb, req[c].buf, req[c].data>>]
                    /\ cb_count' = [cb_count EXCEPT ![c] = IF @ < MaxOutstanding THEN @ + 1 ELSE @]
               ELSE UNCHANGED <<cb_ok, cb_count>>
       ELSE UNCHANGED <<pending, completions, outstanding, req, cb_ok, cb_count>>
    /\ UNCHANGED <<platform, frame_offset, shift_byte_offset, dma_channels, config, pending_cb, cb_data>>
    /\ UNCHANGED <<irq_ctxs, irq_enabled, pio_inte0, pio_irq, instr_used, sm_enabled, pixel_loop, frame_trig, dma_claimed, dma_ch, sensor>>
    /\ UNCHANGED <<life, fg, call>>
    /\ UNCHANGED <<mem_vars, nested>>

\* A handler that returns without clearing the flag when nothing is pending.
camera_isr_clear_when_completed(p) ==
    /\ isr = p
    /\ pio_irq' = [pio_irq EXCEPT ![p] = IF completions[irq_ctxs[p]] = 0 THEN @ ELSE FALSE]
    /\ isr' = NoIsr
    /\ UNCHANGED <<cam_vars, irq_ctxs, irq_enabled, pio_inte0, instr_used, sm_enabled, pixel_loop, frame_trig, dma_claimed, dma_ch, sensor, obs_vars>>
    /\ UNCHANGED <<mem_vars, nested>>

\* Lines 53 and 62: pio_interrupt_clear(pio, 0), then the handler returns.
camera_isr_clear(p) ==
    /\ isr = p
    /\ pio_irq' = [pio_irq EXCEPT ![p] = FALSE]
    /\ isr' = NoIsr
    /\ UNCHANGED <<cam_vars, irq_ctxs, irq_enabled, pio_inte0, instr_used, sm_enabled, pixel_loop, frame_trig, dma_claimed, dma_ch, sensor, obs_vars>>
    /\ UNCHANGED <<mem_vars, nested>>

\* The DMA channels fed by an enabled byte-shift machine of instance p have
\* moved their whole transfer count when the frame ends.
DrainedDma(p) ==
    [ch \in Channels |->
        IF dma_ch[ch].busy /\ dma_ch[ch].rxf_pio = p /\ sm_enabled[p][dma_ch[ch].rxf_sm]
        THEN IdleDma
        ELSE dma_ch[ch]]

\* The frame-timing program, enabled and triggered, walks one frame and
\* raises interrupt flag 0 of its PIO instance.
frame_done(p) ==
    /\ sm_enabled[p][CAMERA_PIO_FRAME_SM]
    /\ frame_trig[p] # <<>>
    /\ frame_trig' = [frame_trig EXCEPT ![p] = Tail(@)]
    /\ pio_irq' = [pio_irq EXCEPT ![p] = TRUE]
    /\ dma_ch' = DrainedDma(p)
    /\ UNCHANGED <<cam_vars, irq_ctxs, irq_enabled, pio_inte0, isr, instr_used, sm_enabled, pixel_loop, dma_claimed, sensor, obs_vars>>
    /\ UNCHANGED <<mem_vars, nested>>

(***************************************************************************)
(* camera_buffer_alloc and camera_buffer_free                              *)
(***************************************************************************)
\* malloc: a region that is not live, or NULL when the call fails or the
\* heap is exhausted.
malloc(h, ok) ==
    IF ok /\ Regions \ h # {}
    THEN CHOOSE r \in Regions \ h : \A o \in Regions \ h : r <= o
    ELSE NULL

\* Lines 486-493: the planes from i on; the malloc of plane fail fails.
\* ok is FALSE when the loop left through goto error.
RECURSIVE AllocPlanes(_, _, _, _)
AllocPlanes(buf, i, h, fail) ==
    IF i >= format_num_planes(buf.format) THEN [ok |-> TRUE, buf |-> buf, heap |-> h]
    ELSE LET d == malloc(h, i # fail)
             filled == [buf EXCEPT !.strides[i] = format_stride(buf.format, i, buf.width),
                                   !.sizes[i] = format_plane_size(buf.format, i, buf.width, buf.height),
                                   !.data[i] = d]
         IN IF d = NULL THEN [ok |-> FALSE, buf |-> filled, heap |-> h]
            ELSE AllocPlanes(filled, i + 1, h \cup {d}, fail)

\* An error path that frees the record but not the planes.
ErrorFreed_record_only(buf, h) == h \ {buf.rec}

\* Lines 497-504: the error path frees every plane that was allocated and
\* the record.
ErrorFreed(buf, h) ==
    (h \ {buf.data[i] : i \in {j \in Planes : j < format_num_planes(buf.format) /\ buf.data[j] # NULL}}) \ {buf.rec}

\* camera_buffer_alloc: the returned buffer (NoBuf for NULL) and the heap
\* after the call.  fail = -1 makes the malloc of the record fail.
BufferAlloc(format, width, height, fail, h) ==
    LET r == malloc(h, fail # 0 - 1)
        fresh == [NoBuf EXCEPT !.rec = r, !.format = format, !.width = width, !.height = height]
        a == AllocPlanes(fresh, 0, h \cup {r}, fail)
    IN IF r = NULL THEN [buf |-> NoBuf, heap |-> h]
       ELSE IF a.ok THEN [buf |-> a.buf, heap |-> a.heap]
       ELSE [buf |-> NoBuf, heap |-> ErrorFreed(a.buf, a.heap)]

\* The caller keeps the returned pointer in slot s.
camera_buffer_alloc(format, width, height, fail, s) ==
    LET res == BufferAlloc(format, width, height, fail, heap) IN
    /\ abuf[s] = NoBuf
    /\ heap' = res.heap
    /\ abuf' = [abuf EXCEPT ![s] = res.buf]
    /\ alloc_ret' = [op |-> "alloc", format |-> format, width |-> width, height |-> height, fail |-> fail, buf |-> res.buf]
    /\ UNCHANGED <<cam_vars, hw_vars, obs_vars, calc, probe, nested>>

\* camera_buffer_free of the buffer kept in slot s (a NULL pointer when the
\* slot is empty: nothing happens).
camera_buffer_free(s) ==
    LET buf == abuf[s] IN
    /\ heap' = IF buf = NoBuf THEN heap
               ELSE (heap \ {buf.data[i] : i \in {j \in Planes : j < format_num_planes(buf.format) /\ buf.data[j] # NULL}}) \ {buf.rec}
    /\ abuf' = [abuf EXCEPT ![s] = NoBuf]
    /\ alloc_ret' = [NoAlloc EXCEPT !.op = "free", !.buf = buf]
    /\ UNCHANGED <<cam_vars, hw_vars, obs_vars, calc, probe, nested>>

\* (width, height) pairs offered to camera_buffer_alloc.
AllocGeometries ==
    {<<CAMERA_WIDTH_DIV8, CAMERA_HEIGHT_DIV8>>, <<MaxWidth, MaxHeight>>,
     <<CAMERA_WIDTH_DIV8, MaxHeight>>, <<MaxWidth, CAMERA_HEIGHT_DIV8>>, <<MaxWidth, 1>>}

NextMem ==
    \/ \E format \in Formats, g \in AllocGeometries, fail \in (0 - 1) .. CAMERA_MAX_N_PLANES, s \in Slots :
           camera_buffer_alloc(format, g[1], g[2], fail, s)
    \/ \E s \in Slots : camera_buffer_free(s)

SpecMem == Init /\ [][NextMem]_vars

(***************************************************************************)
(* The format calculus over the whole range of its arguments               *)
(***************************************************************************)
\* The largest uint16_t.
UINT16_MAX == 65535

\* The product of two 16-bit values as two 16-bit halves, computed through
\* 8-bit pieces so that no intermediate value leaves 31 bits.
Mul16(x, y) ==
    LET t1 == (x % 256) * y
        t2 == (x \div 256) * y
        u == t1 + (t2 % 256) * 256
    IN [hi |-> t2 \div 256 + u \div 65536, lo |-> u % 65536]

\* format_plane_size as the machine computes it: the uint32_t stride (17
\* bits at most) times the height in 32-bit unsigned arithmetic.  hi and lo
\* are the halves of the value returned, carry what the product has above
\* bit 31, which the return value loses.
format_plane_size_u32(format, plane, width, height) ==
    LET stride == format_stride(format, plane, width)
        low == Mul16(stride % 65536, height)
        upper == (stride \div 65536) * height + low.hi
    IN [hi |-> upper % 65536, lo |-> low.lo, carry |-> upper \div 65536]

\* Widths and heights across the range of uint16_t.
WideWidths == {1, CAMERA_WIDTH_DIV8, 32768, UINT16_MAX}

WideHeights == {1, CAMERA_HEIGHT_DIV8, 255, 256, 32768, 32769, UINT16_MAX}

\* format_stride and format_plane_size applied to a plane of a supported format.
format_eval_wide(format, plane, width, height) ==
    /\ plane < format_num_planes(format)
    /\ calc' = [format |-> format, plane |-> plane, width |-> width, height |-> height,
                stride |-> format_stride(format, plane, width),
                size |-> format_plane_size_u32(format, plane, width, height)]
    /\ UNCHANGED <<cam_vars, hw_vars, obs_vars, heap, abuf, alloc_ret, probe, nested>>

NextFormatWide ==
    \E format \in {FORMAT_YUYV, FORMAT_RGB565, FORMAT_YUV422}, plane \in Planes, width \in WideWidths, height \in WideHeights :
        format_eval_wide(format, plane, width, height)

SpecFormatWide == Init /\ [][NextFormatWide]_vars

(***************************************************************************)
(* The sensor probe (camera_detect)                                        *)
(***************************************************************************)
DetectLoops_inclusive(tries) == tries >= 0

\* while (tries--): the body runs while tries is not zero.
DetectLoops(tries) == tries # 0

\* The attempt read the identification register and found the OV7670's byte.
DetectMatched(o) == o.w /\ o.r /\ o.val = OV7670_PID

\* One pass of the loop body against the bus outcome o: a failed write or a
\* failed read goes to the next attempt with val as it was, a completed read
\* stores its byte in val and leaves the loop when it is the identity.
detect_attempt(o) ==
    /\ probe.pc = "loop"
    /\ DetectLoops(probe.tries)
    /\ probe' = [probe EXCEPT !.tries = @ - 1,
                              !.bus = Append(@, o),
                              !.val = IF o.w /\ o.r THEN o.val ELSE @,
                              !.pc = IF DetectMatched(o) THEN "break" ELSE "loop"]
    /\ UNCHANGED <<cam_vars, hw_vars, obs_vars, heap, abuf, alloc_ret, calc, nested>>

\* The loop is left by break or by its test; the result is val == 0x76.
detect_return ==
    /\ \/ probe.pc = "break"
       \/ probe.pc = "loop" /\ ~DetectLoops(probe.tries)
    /\ probe' = [probe EXCEPT !.pc = "done",
                              !.tries = IF probe.pc = "loop" THEN @ - 1 ELSE @,
                              !.ret = (probe.val = OV7670_PID)]
    /\ UNCHANGED <<cam_vars, hw_vars, obs_vars, heap, abuf, alloc_ret, calc, nested>>

NextDetect ==
    \/ \E o \in BusOutcomes : detect_attempt(o)
    \/ detect_return

SpecDetect == Init /\ [][NextDetect]_vars

(***************************************************************************)
(* The format calculus applied to its arguments                            *)
(***************************************************************************)
format_eval(format, plane, width, height) ==
    /\ calc' = [format |-> format, plane |-> plane, width |-> width, height |-> height,
                num_planes |-> format_num_planes(format),
                bytes_per_pixel |-> format_bytes_per_pixel(format, plane),
                hsub |-> format_hsub(format, plane),
                stride |-> format_stride(format, plane, width),
                plane_size |-> format_plane_size(format, plane, width, height)]
    /\ UNCHANGED <<cam_vars, hw_vars, obs_vars, heap, abuf, alloc_ret, probe, nested>>

NextFormat ==
    \E format \in CalcFormats, plane \in CalcPlanes, width \in CalcWidths, height \in CalcHeights :
        format_eval(format, plane, width, height)

SpecFormat == Init /\ [][NextFormat]_vars

(***************************************************************************)
(* Specification                                                           *)
(***************************************************************************)
\* The calls the foreground makes on context c.
Api(c, bases) ==
    \/ \E params \in PlatformConfigs(c, bases) : camera_init_undetected(c, params)
    \/ \E params \in PlatformConfigs(c, bases) : camera_init_detected(c, params)
    \/ camera_term(c)
    \/ \E f \in Formats, g \in Geometries : camera_configure(c, f, g[1], g[2])
    \/ \E b \in Bufs, allow \in BOOLEAN : camera_capture_blocking(c, b, allow)
    \/ \E b \in Bufs, allow \in BOOLEAN, cb \in Callbacks \cup {NULL}, d \in UserData \cup {NULL} :
           camera_capture_with_cb(c, b, allow, cb, d)

Next ==
    \/ Api(0, {-1})
    \/ do_frame_store_pending
    \/ do_frame_store_cb
    \/ do_frame_store_data
    \/ do_frame_trigger
    \/ do_frame_poll_return
    \/ api_return
    \/ \E p \in PIOs : camera_isr_pio(p)
    \/ \E p \in PIOs : camera_isr_clear(p)
    \/ \E p \in PIOs : frame_done(p)

Spec == Init /\ [][Next]_vars

\* The foreground goes on executing camera_do_frame, and a handler that is
\* entered or can be entered runs to its end.
FgProgress ==
    \/ do_frame_store_pending
    \/ do_frame_store_cb
    \/ do_frame_store_data
    \/ do_frame_trigger
    \/ do_frame_poll_return

IsrProgress == \E p \in PIOs : camera_isr_pio(p) \/ camera_isr_clear(p)

SpecFair == Spec /\ WF_vars(FgProgress) /\ WF_vars(IsrProgress)

(***************************************************************************)
(* A completion callback that asks for the next frame                      *)
(***************************************************************************)
CallbackCapture_after_clear(c, b, allow_reconfigure) ==
    IF ConfigMismatch(c, b) /\ ~allow_reconfigure THEN 0 - 1 ELSE 0

\* What camera_do_frame decides when the callback calls it at line 41: the
\* slot is cleared at line 44 only, so the call reads it as __camera_isr
\* found it.
CallbackCapture(c, b, allow_reconfigure) == camera_do_frame_check(c, b, allow_reconfigure)

\* The handler of PIO instance p whose callback calls
\* camera_capture_with_cb(camera, b, allow_reconfigure, cb, d) on its own
\* context before it returns.  A call that is turned away returns at once;
\* one that is accepted configures, arms the channels, stores its request
\* and triggers the frame program, and line 44 then empties the slot.
camera_isr_pio_capturing(p, b, allow_reconfigure, cb, d) ==
    LET c == irq_ctxs[p]
        pp == platform[c].pio
        ret == CallbackCapture(c, b, allow_reconfigure)
        cfg == DoFrameConfig(c, b)
        reconf == ConfigMismatch(c, b) /\ SupportedSize(BufWidth(b), BufHeight(b))
    IN
    /\ isr = NoIsr
    /\ pio_irq[p] /\ pio_inte0[p] /\ irq_enabled[p]
    /\ IsrCallsBack(p)
    /\ isr' = p
    /\ nested' = [made |-> TRUE, ret |-> ret]
    /\ pending' = [pending EXCEPT ![c] = NULL]
    /\ completions' = [completions EXCEPT ![c] = IF @ < MaxOutstanding THEN @ + 1 ELSE @]
    /\ outstanding' = [outstanding EXCEPT ![c] = IF @ > 0 THEN @ - 1 ELSE @]
    /\ req' = [req EXCEPT ![c] = NoReq]
    /\ cb_ok' = [cb_ok EXCEPT ![c] = @ /\ CallbackArgs(c) = <<req[c].cb, req[c].buf, req[c].data>>]
    /\ cb_count' = [cb_count EXCEPT ![c] = IF @ < MaxOutstanding THEN @ + 1 ELSE @]
    /\ IF ret # 0
       THEN UNCHANGED <<config, pending_cb, cb_data, dma_ch, frame_trig, sm_enabled, pixel_loop, sensor>>
       ELSE /\ config' = [config EXCEPT ![c] = cfg]
            /\ sm_enabled' = IF reconf THEN [sm_enabled EXCEPT ![pp] = camera_pio_configure_enabled(BufFormat(b))] ELSE sm_enabled
            /\ pixel_loop' = IF reconf THEN [pixel_loop EXCEPT ![pp] = camera_get_pixel_loop(BufFormat(b))] ELSE pixel_loop
            /\ sensor' = IF reconf THEN [sensor EXCEPT ![c] = camera_configure_sensor(c, BufFormat(b), BufWidth(b), BufHeight(b))] ELSE sensor
            /\ dma_ch' = ArmedDma(c, b, cfg)
            /\ pending_cb' = [pending_cb EXCEPT ![c] = cb]
            /\ cb_data' = [cb_data EXCEPT ![c] = d]
            /\ frame_trig' = [frame_trig EXCEPT ![pp] = Append(IF reconf THEN << >> ELSE @, <<NumLoops(b), BufHeight(b)>>)]
    /\ UNCHANGED <<platform, frame_offset, shift_byte_offset, dma_channels>>
    /\ UNCHANGED <<irq_ctxs, irq_enabled, pio_inte0, pio_irq, instr_used, dma_claimed>>
    /\ UNCHANGED <<life, fg, call>>
    /\ UNCHANGED mem_vars

\* One context captures with callbacks; each callback may call
\* camera_capture_with_cb again.
NextCallback ==
    \/ \E params \in PlatformConfigs(0, {-1}) : camera_init_detected(0, params)
    \/ \E b \in Bufs, allow \in BOOLEAN, cb \in Callbacks, d \in UserData \cup {NULL} :
           camera_capture_with_cb(0, b, allow, cb, d)
    \/ do_frame_store_pending
    \/ do_frame_store_cb
    \/ do_frame_store_data
    \/ do_frame_trigger
    \/ api_return
    \/ \E p \in PIOs, b \in Bufs, allow \in BOOLEAN, cb \in Callbacks, d \in UserData \cup {NULL} :
           camera_isr_pio_capturing(p, b, allow, cb, d)
    \/ \E p \in PIOs : camera_isr_pio(p)
    \/ \E p \in PIOs : camera_isr_clear(p)
    \/ \E p \in PIOs : frame_done(p)

SpecCallback == Init /\ [][NextCallback]_vars

(***************************************************************************)
(* Captures on a context that was never configured                         *)
(***************************************************************************)
\* The buffers offered: 80x60 RGB565, 40x30 RGB565 and the buffer returned
\* by camera_buffer_alloc(0, 0, 0).
UnconfiguredBufs == {1, 3, 6}

\* camera_init, camera_term and captures; camera_configure is never called
\* directly.
NextUnconfigured ==
    \/ \E params \in PlatformConfigs(0, {-1}) : camera_init_undetected(0, params)
    \/ \E params \in PlatformConfigs(0, {-1}) : camera_init_detected(0, params)
    \/ camera_term(0)
    \/ \E b \in UnconfiguredBufs, allow \in BOOLEAN : camera_capture_blocking(0, b, allow)
    \/ \E b \in UnconfiguredBufs, allow \in BOOLEAN, cb \in Callbacks \cup {NULL}, d \in UserData \cup {NULL} :
           camera_capture_with_cb(0, b, allow, cb, d)
    \/ do_frame_store_pending
    \/ do_frame_store_cb
    \/ do_frame_store_data
    \/ do_frame_trigger
    \/ do_frame_poll_return
    \/ api_return
    \/ \E p \in PIOs : camera_isr_pio(p)
    \/ \E p \in PIOs : camera_isr_clear(p)
    \/ \E p \in PIOs : frame_done(p)

SpecUnconfigured == Init /\ [][NextUnconfigured]_vars

(***************************************************************************)
(* Two contexts, one per PIO instance                                      *)
(***************************************************************************)
\* The calls made on each of the two contexts: each is initialised until
\* its programs are loaded (once), configured for the format of its own
\* 80x60 buffer (RGB565 for context 0, YUV422 for context 1) and captures
\* into that buffer.
DualBuf(c) == IF c = 0 THEN 1 ELSE 2

ApiDual(c) ==
    \/ \E params \in PlatformConfigs(c, {-1}) : instr_used[c] = 0 /\ camera_init_undetected(c, params)
    \/ \E params \in PlatformConfigs(c, {-1}) : instr_used[c] = 0 /\ camera_init_detected(c, params)
    \/ camera_term(c)
    \/ camera_configure(c, BufFormat(DualBuf(c)), CAMERA_WIDTH_DIV8, CAMERA_HEIGHT_DIV8)
    \/ camera_capture_blocking(c, DualBuf(c), TRUE)
    \/ camera_capture_with_cb(c, DualBuf(c), TRUE, 1, 1)

NextDual ==
    \/ \E c \in Cams : ApiDual(c)
    \/ do_frame_store_pending
    \/ do_frame_store_cb
    \/ do_frame_store_data
    \/ do_frame_trigger
    \/ do_frame_poll_return
    \/ api_return
    \/ \E p \in PIOs : camera_isr_pio(p)
    \/ \E p \in PIOs : camera_isr_clear(p)
    \/ \E p \in PIOs : frame_done(p)

SpecDual == Init /\ [][NextDual]_vars

(***************************************************************************)
(* Two contexts on one PIO instance                                        *)
(***************************************************************************)
\* Both contexts are given PIO instance 0 in their platform configuration.
SharedConfigs == [pio : {0}, base_dma_channel : {0 - 1}]

ApiShared(c) ==
    \/ \E params \in SharedConfigs : camera_init_undetected(c, params)
    \/ \E params \in SharedConfigs : camera_init_detected(c, params)
    \/ camera_term(c)
    \/ camera_capture_with_cb(c, 1, TRUE, 1, 1)

NextShared ==
    \/ \E c \in Cams : ApiShared(c)
    \/ do_frame_store_pending
    \/ do_frame_store_cb
    \/ do_frame_store_data
    \/ do_frame_trigger
    \/ api_return
    \/ \E p \in PIOs : camera_isr_pio(p)
    \/ \E p \in PIOs : camera_isr_clear(p)
    \/ \E p \in PIOs : frame_done(p)

SpecShared == Init /\ [][NextShared]_vars


(***************************************************************************)
(* One context with its DMA channels named by the platform configuration   *)
(***************************************************************************)
\* base_dma_channel values offered to camera_init: none (-1), a base whose
\* range holds a foreign channel (0), and a base whose range is free (2).
ChannelBases == {0 - 1, 0, 2}

ApiChannels(c) ==
    \/ \E params \in PlatformConfigs(c, ChannelBases) : camera_init_undetected(c, params)
    \/ \E params \in PlatformConfigs(c, ChannelBases) : camera_init_detected(c, params)
    \/ camera_term(c)
    \/ \E f \in {FORMAT_RGB565, FORMAT_YUV422} : camera_configure(c, f, CAMERA_WIDTH_DIV8, CAMERA_HEIGHT_DIV8)
    \/ \E b \in {1, 2} : camera_capture_with_cb(c, b, TRUE, 1, 1)

NextChannels ==
    \/ ApiChannels(0)
    \/ do_frame_store_pending
    \/ do_frame_store_cb
    \/ do_frame_store_data
    \/ do_frame_trigger
    \/ api_return
    \/ \E p \in PIOs : camera_isr_pio(p)
    \/ \E p \in PIOs : camera_isr_clear(p)
    \/ \E p \in PIOs : frame_done(p)

SpecChannels == Init /\ [][NextChannels]_vars

(***************************************************************************)
(* Properties                                                              *)
(***************************************************************************)
CaptureOps == {"capture_blocking", "capture_with_cb"}

\* The step is a call of a capture entry point on context c: it either
\* returns at once with a code or is accepted and goes on to line 423.
CaptureReturned(c) == Idle /\ call'.op \in CaptureOps /\ call'.cam = c

CaptureAccepted(c) == Idle /\ fg'.pc = "store_pending" /\ fg'.cam = c

\* The (format, width, height) triples of a configuration and of a buffer.
ConfigTriple(c) == <<config[c].format, config[c].width, config[c].height>>

BufTriple(b) == <<BufFormat(b), BufWidth(b), BufHeight(b)>>

\* C1: a capture call made while the pending slot of the context is
\* occupied is never accepted; it returns -2 and leaves the context (slot,
\* callback, user data, cached configuration) and the DMA, PIO, interrupt
\* and sensor state as they were.
C1_BusyRejected ==
    [][\A c \in Cams :
        ((CaptureReturned(c) \/ CaptureAccepted(c)) /\ pending[c] # NULL)
            => /\ CaptureReturned(c)
               /\ call'.ret = 0 - 2
               /\ UNCHANGED <<cam_vars, hw_vars>>]_vars

\* A capture has just returned -2 on a context whose slot is occupied.
C1_Witness ==
    /\ call.op \in CaptureOps
    /\ call.ret = 0 - 2
    /\ pending[call.cam] # NULL

\* C2: at most one accepted request is outstanding per context, and the
\* slot holds a buffer exactly while one is.
C2_AtMostOneOutstanding ==
    \A c \in Cams :
        /\ outstanding[c] <= 1
        /\ (outstanding[c] = 1) <=> (pending[c] # NULL)

\* A request is outstanding on a context that was terminated and
\* initialised again, and a further capture has just been turned away.
C2_Witness ==
    /\ outstanding[0] = 1
    /\ instr_used[0] > ReadByteProgramLen + FrameProgramLen
    /\ call.op \in CaptureOps
    /\ call.ret = 0 - 2

\* C3 as stated: when capture_blocking has returned 0 the slot is empty and
\* the handler has completed the request exactly once since the trigger.
C3_BlockingAfterOneCompletion ==
    (call.op = "capture_blocking" /\ call.ret = 0)
        => (pending[call.cam] = NULL /\ completions[call.cam] = 1)

\* C4 as stated: for the request in flight the callback has run at most
\* once, and with the callback's own buffer and user data.
C4_CallbackOnceWithRequestArgs ==
    \A c \in Cams : cb_count[c] <= 1 /\ cb_ok[c]

\* C5: a handler run that finds no context or an empty slot calls nothing
\* back and leaves the context as it was; every handler run returns with
\* the interrupt flag of its PIO instance cleared.
C5_IsrNoopAndClears ==
    [][\A p \in PIOs :
        /\ (isr = NoIsr /\ isr' = p /\ (irq_ctxs[p] = NoCam \/ pending[irq_ctxs[p]] = NULL))
              => UNCHANGED <<cam_vars, cb_count, cb_ok, completions, outstanding>>
        /\ (isr = p /\ isr' = NoIsr) => ~pio_irq'[p]]_vars

\* The handler is running on a context that has completed nothing since
\* its last accepted request: it found the slot empty.
C5_Witness ==
    /\ isr = 0
    /\ irq_ctxs[0] = 0
    /\ completions[0] = 0
    /\ pending[0] = NULL
    /\ cb_count[0] = 0

\* C6: with the slot empty, a capture is accepted only if its buffer
\* matches the configured triple or allow_reconfigure is set; a call that
\* is turned away returns -1 and leaves context and hardware as they were.
C6_MismatchRejected ==
    [][\A c \in Cams :
        /\ (CaptureAccepted(c) /\ pending[c] = NULL)
              => (ConfigTriple(c) = BufTriple(fg'.buf) \/ fg'.allow)
        /\ (CaptureReturned(c) /\ pending[c] = NULL)
              => (call'.ret = 0 - 1 /\ UNCHANGED <<cam_vars, hw_vars>>)]_vars

\* A capture has just returned -1 on a configured context with an empty
\* slot, no DMA channel armed and no trigger queued.
C6_Witness ==
    /\ call.op \in CaptureOps
    /\ call.ret = 0 - 1
    /\ config[call.cam].width = CAMERA_WIDTH_DIV8
    /\ pending[call.cam] = NULL
    /\ \A ch \in Channels : ~dma_ch[ch].busy
    /\ frame_trig[platform[call.cam].pio] = <<>>

\* C7 as stated: a capture that is about to trigger the frame program has
\* the configured triple equal to its buffer's.
C7_TriggerMatchesBuffer ==
    FgAt("trigger") => ConfigTriple(fg.cam) = BufTriple(fg.buf)

\* C8: a configure call with a size other than 80x60 returns -1 and leaves
\* context and hardware (DMA, PIO, interrupts, sensor) as they were.
C8_UnsupportedSizeRejected ==
    [][(Idle /\ call'.op = "configure"
             /\ <<call'.width, call'.height>> # <<CAMERA_WIDTH_DIV8, CAMERA_HEIGHT_DIV8>>)
          => (call'.ret = 0 - 1 /\ UNCHANGED <<cam_vars, hw_vars>>)]_vars

\* A configure has just been turned away on a context that holds a
\* configuration.
C8_Witness ==
    /\ call.op = "configure"
    /\ call.ret = 0 - 1
    /\ call.width # CAMERA_WIDTH_DIV8
    /\ config[call.cam].width = CAMERA_WIDTH_DIV8

\* C9: a configure call at 80x60 returns 0, and when its arguments are the
\* triple the context is already configured with, the cached configuration
\* after the call is the one before it.
C9_ConfigureIdempotent ==
    [][\A c \in Cams :
        (Idle /\ call'.op = "configure" /\ call'.cam = c
              /\ <<call'.width, call'.height>> = <<CAMERA_WIDTH_DIV8, CAMERA_HEIGHT_DIV8>>)
          => /\ call'.ret = 0
             /\ (ConfigTriple(c) = <<config'[c].format, call'.width, call'.height>>) => config'[c] = config[c]]_vars

\* A configure has just succeeded with the triple the context was already
\* configured with, here the three-plane YUV422.
C9_Witness ==
    /\ call.op = "configure"
    /\ call.ret = 0
    /\ call.repeated
    /\ config[call.cam].format = FORMAT_YUV422
    /\ pixel_loop[platform[call.cam].pio] = camera_get_pixel_loop(FORMAT_YUV422)
    /\ sensor[call.cam].colorspace = OV7670_COLOR_YUV

\* The configuration a freshly initialised context gets from a configure
\* with the triple context c is configured with.
FreshConfig(c) == ConfigureFrom(ZeroConfig, c, config[c].format, config[c].width, config[c].height)

\* C10 as stated: the cached configuration of an initialised, configured context is the
\* one a fresh context gets from the same triple, in every entry.
C10_ConfigIsFresh ==
    \A c \in Cams : (life[c] = "active" /\ config[c].width # 0) => config[c] = FreshConfig(c)

\* C10, amended: the entries of the planes of the configured format, and the
\* state-machine configurations of the frame machine and of those planes'
\* machines, are the ones a fresh context gets from the same triple.
C10_UsedEntriesAreFresh ==
    \A c \in Cams : (life[c] = "active" /\ config[c].width # 0) =>
        /\ \A i \in Planes : i < format_num_planes(config[c].format) =>
              /\ config[c].dma_transfers[i] = FreshConfig(c).dma_transfers[i]
              /\ config[c].dma_offset[i] = FreshConfig(c).dma_offset[i]
              /\ config[c].dma_cfgs[i] = FreshConfig(c).dma_cfgs[i]
        /\ \A s \in SMs : s <= format_num_planes(config[c].format) =>
              config[c].sm_cfgs[s] = FreshConfig(c).sm_cfgs[s]

\* A context configured for the one-plane RGB565 still holds the plane 1
\* entry of an earlier YUV422 configuration.
C10_Witness ==
    /\ life[0] = "active"
    /\ config[0].format = FORMAT_RGB565
    /\ config[0].dma_transfers[1] # 0


\* The step is a call of camera_term, or of camera_init, on context c.
TermStep(c) == Idle /\ call'.op = "term" /\ call'.cam = c

InitReturned(c) == Idle /\ call'.op = "init" /\ call'.cam = c

\* C11: camera_term, called with or without a capture in flight, calls no
\* callback and leaves buffer, callback and user data of the slot NULL; and
\* while no request has been accepted since (none is outstanding) no
\* handler run calls a callback.
C11_TermDiscardsSilently ==
    [][\A c \in Cams :
        /\ TermStep(c) =>
              /\ pending'[c] = NULL /\ pending_cb'[c] = NULL /\ cb_data'[c] = NULL
              /\ cb_count' = cb_count
              /\ req'[c] = NoReq
        /\ (req[c] = NoReq /\ req'[c] = NoReq) => cb_count'[c] = cb_count[c]]_vars

\* camera_term has just returned on a context whose frame was triggered
\* and had not completed: the trigger is still with the frame machine.
C11_Witness ==
    /\ call.op = "term"
    /\ frame_trig[platform[call.cam].pio] # <<>>
    /\ pending[call.cam] = NULL
    /\ cb_count[call.cam] = 0

\* C12 as stated: a camera_term that follows a failed camera_init hands no
\* channel to dma_channel_unclaim, and every channel a camera_term hands
\* to it is claimed and is not one of another driver.
C12_TermReleasesOwnChannels ==
    [][\A c \in Cams :
        TermStep(c) =>
            /\ life[c] = "failed" => TermUnclaimed(c) = {}
            /\ TermUnclaimed(c) \subseteq dma_claimed \ ForeignChannels]_vars

\* C13 as stated: camera_term on an initialised context leaves none of its
\* channels claimed, its interrupt disabled and its dispatch entry empty,
\* and a camera_init that follows a camera_term and finds the sensor
\* succeeds with three channels claimed, the entry registered, the
\* interrupt enabled, the slot empty and the configuration unset.
C13_TermThenInitIsFresh ==
    [][\A c \in Cams :
        /\ (TermStep(c) /\ life[c] = "active") =>
              /\ \A i \in Planes : dma_channels[c][i] \notin dma_claimed'
              /\ ~irq_enabled'[platform[c].pio]
              /\ irq_ctxs'[platform[c].pio] = NoCam
        /\ (Idle /\ life[c] = "terminated" /\ life'[c] \notin {"terminated", "failed"}) =>
              /\ life'[c] = "active"
              /\ call'.op = "init" /\ call'.ret = 0
              /\ Cardinality({dma_channels'[c][i] : i \in Planes}) = CAMERA_MAX_N_PLANES
              /\ \A i \in Planes : dma_channels'[c][i] \in dma_claimed' \ dma_claimed
              /\ irq_ctxs'[platform'[c].pio] = c
              /\ irq_enabled'[platform'[c].pio]
              /\ pending'[c] = NULL /\ pending_cb'[c] = NULL /\ cb_data'[c] = NULL
              /\ config'[c] = ZeroConfig]_vars

\* C14 as stated: the PIO instruction memory taken by the two capture
\* programs never exceeds what one camera_init loads.
C14_ProgramsNotLeaked ==
    \A p \in PIOs : instr_used[p] <= ReadByteProgramLen + FrameProgramLen

\* C15: a camera_init that returns -1 has claimed no DMA channel, loaded no
\* PIO program, written no dispatch entry and enabled no interrupt.
C15_FailedInitAcquiresNothing ==
    [][\A c \in Cams :
        (InitReturned(c) /\ call'.ret # 0) =>
            /\ call'.ret = 0 - 1
            /\ UNCHANGED <<dma_claimed, instr_used, irq_ctxs, irq_enabled, pio_inte0>>]_vars

\* camera_init has just returned -1 on a context that was in use before:
\* the earlier programs are loaded, nothing is claimed for the context.
C15_Witness ==
    /\ call.op = "init"
    /\ call.ret = 0 - 1
    /\ instr_used[platform[call.cam].pio] > 0
    /\ dma_claimed = ForeignChannels
    /\ irq_ctxs[platform[call.cam].pio] = NoCam


\* The step is a camera_buffer_alloc call (one that changes anything).
AllocStep == alloc_ret'.op = "alloc" /\ <<heap, abuf, alloc_ret>>' # <<heap, abuf, alloc_ret>>

\* C16: camera_buffer_alloc either returns NULL and leaves the heap as it
\* was, or returns a record with the arguments, whose strides and sizes of
\* the format's planes are format_stride and format_plane_size and whose
\* planes are distinct regions allocated by this call.
C16_AllocAllOrNothing ==
    [][AllocStep =>
        LET b == alloc_ret'.buf
            n == format_num_planes(alloc_ret'.format)
            used == {j \in Planes : j < n}
        IN IF b = NoBuf THEN heap' = heap /\ abuf' = abuf
           ELSE /\ <<b.format, b.width, b.height>> = <<alloc_ret'.format, alloc_ret'.width, alloc_ret'.height>>
                /\ \A i \in used :
                      /\ b.strides[i] = format_stride(b.format, i, b.width)
                      /\ b.sizes[i] = format_plane_size(b.format, i, b.width, b.height)
                      /\ b.data[i] \in heap' \ heap
                /\ b.rec \in heap' \ heap
                /\ Cardinality({b.data[i] : i \in used} \cup {b.rec}) = n + 1
                /\ heap' = heap \cup {b.data[i] : i \in used} \cup {b.rec}]_vars

\* A three-plane allocation has just failed at its last plane, after the
\* record and two planes had been allocated around the foreign region.
C16_Witness ==
    /\ alloc_ret.op = "alloc"
    /\ alloc_ret.format = FORMAT_YUV422
    /\ alloc_ret.fail = 2
    /\ alloc_ret.buf = NoBuf
    /\ heap = ForeignRegions

\* C17: for the three supported formats and the planes below their plane
\* count, plane_size = stride * height and stride = bytes per pixel * width
\* / subsampling (2 and 1 for the packed formats; 1, and 1 for plane 0 or 2
\* for the chroma planes, for YUV422); at 80x60 RGB565 has one plane of
\* stride 160 and size 9600, YUV422 three of 80/4800, 40/2400, 40/2400.
C17_PlaneLayout ==
    LET packed == calc.format \in {FORMAT_YUYV, FORMAT_RGB565}
        planar == calc.format = FORMAT_YUV422
        at8060 == calc.width = 80 /\ calc.height = 60
    IN ((packed \/ planar) /\ calc.plane < calc.num_planes) =>
        /\ calc.num_planes = IF packed THEN 1 ELSE 3
        /\ calc.plane_size = calc.stride * calc.height
        /\ calc.stride = (calc.bytes_per_pixel * calc.width) \div calc.hsub
        /\ packed => (calc.bytes_per_pixel = 2 /\ calc.hsub = 1 /\ calc.stride = 2 * calc.width)
        /\ planar => (calc.bytes_per_pixel = 1 /\ calc.hsub = (IF calc.plane = 0 THEN 1 ELSE 2))
        /\ (planar /\ calc.plane # 0) => calc.stride = calc.width \div 2
        /\ (at8060 /\ packed) => (calc.stride = 160 /\ calc.plane_size = 9600)
        /\ (at8060 /\ planar /\ calc.plane = 0) => (calc.stride = 80 /\ calc.plane_size = 4800)
        /\ (at8060 /\ planar /\ calc.plane # 0) => (calc.stride = 40 /\ calc.plane_size = 2400)

\* The calculus has been applied to a chroma plane of YUV422 at 80x60.
C17_Witness ==
    /\ calc.format = FORMAT_YUV422
    /\ calc.plane = 2
    /\ calc.width = 80 /\ calc.height = 60
    /\ calc.plane_size = 2400

\* C18: for a format code that is none of the three supported ones the
\* plane count, bytes per pixel, stride and plane size are 0 and the
\* subsampling is 1; the subsampling, the divisor of the stride, is never 0.
C18_UnknownFormatIsZero ==
    /\ calc.hsub >= 1
    /\ calc.format \notin {FORMAT_YUYV, FORMAT_RGB565, FORMAT_YUV422} =>
          /\ calc.num_planes = 0
          /\ calc.bytes_per_pixel = 0
          /\ calc.stride = 0
          /\ calc.plane_size = 0
          /\ calc.hsub = 1

\* The calculus has been applied to an unrecognised code with the largest
\* plane index and a full-size frame.
C18_Witness ==
    /\ calc.format = FORMAT_OTHER
    /\ calc.plane = 255
    /\ calc.width = 80 /\ calc.height = 60
    /\ calc.stride = 0


\* The step belongs to context i: a foreground step of a call on it (the
\* call returns, is accepted, or moves on inside camera_do_frame), a step
\* of the handler of its PIO instance, or the end of a frame on it.
OnContext(i) ==
    \/ /\ isr' = isr
       /\ fg' # fg \/ (call = NoCall /\ call' # NoCall)
       /\ i = (IF fg.pc # "idle" THEN fg.cam ELSE IF fg'.pc # "idle" THEN fg'.cam ELSE call'.cam)
    \/ isr' # isr /\ (isr = i \/ isr' = i)
    \/ Len(frame_trig'[i]) < Len(frame_trig[i]) /\ pio_irq'[i]

\* What context j owns: its slot, its configuration, its DMA channels with
\* their claims and their programmed transfers, and its dispatch entry.
ContextView(j) ==
    <<pending[j], pending_cb[j], cb_data[j], config[j], dma_channels[j],
      [i \in Planes |-> dma_channels[j][i] \in dma_claimed],
      [i \in Planes |-> IF dma_channels[j][i] \in Channels THEN dma_ch[dma_channels[j][i]] ELSE IdleDma],
      irq_ctxs[j]>>

\* C19 as stated: while both contexts are initialised, a step of context i
\* (capture, completion interrupt, configure, terminate) changes nothing
\* that context j owns.
C19_ContextsIndependent ==
    [][\A i \in Cams, j \in Cams :
        (i # j /\ life[i] = "active" /\ life[j] = "active" /\ OnContext(i))
            => UNCHANGED ContextView(j)]_vars

\* A blocking capture has passed the checks of camera_do_frame and has not
\* returned.
BlockingInProgress == fg.pc \notin {"idle", "panic"} /\ fg.blocking

BlockingReturnedZero == call.op = "capture_blocking" /\ call.ret = 0

\* After every frame trigger the completion handler is eventually entered.
InterruptDelivered == (frame_trig[0] # <<>>) ~> (isr = 0)

\* C20 as stated: when the completion interrupt is eventually delivered after
\* every frame trigger, every accepted capture_blocking eventually returns 0.
C20_BlockingReturns ==
    InterruptDelivered => (BlockingInProgress ~> BlockingReturnedZero)

\* A blocking capture polls the slot with the frame triggered and no
\* interrupt raised yet.
C20_Witness ==
    /\ FgAt("poll")
    /\ fg.blocking
    /\ pending[fg.cam] # NULL
    /\ frame_trig[fg.cam] # <<>>
    /\ ~pio_irq[fg.cam]

\* The step is line 427 of a capture on context c: the frame program is
\* triggered.
TriggerStep(c) == FgAt("trigger") /\ fg.cam = c /\ fg'.pc # "trigger"

\* The channel of plane i of context c is armed for buffer b: it reads the
\* receive register of machine i + 1 at the cached offset and writes the
\* cached number of transfers to plane i of b.
PlaneArmed(c, b, i) ==
    /\ dma_channels[c][i] \in Channels
    /\ BufHasPlane(b, i)
    /\ dma_ch[dma_channels[c][i]] =
          [busy |-> TRUE, buf |-> b, plane |-> i,
           rxf_pio |-> platform[c].pio, rxf_sm |-> i + 1,
           offset |-> config[c].dma_offset[i], count |-> config[c].dma_transfers[i],
           data_size |-> config[c].dma_cfgs[i].data_size]

\* The slot of context c holds the request the foreground is issuing.
SlotHoldsRequest(c) ==
    pending[c] = fg.buf /\ pending_cb[c] = fg.cb /\ cb_data[c] = fg.data

\* C21 as stated: when the frame program is triggered, the channel of every
\* plane of the configured format is armed for the request's buffer and the
\* slot holds the request's buffer, callback and user data.
C21_ArmedAndStoredBeforeTrigger ==
    [][\A c \in Cams : TriggerStep(c) =>
          /\ \A i \in Planes : i < format_num_planes(config[c].format) => PlaneArmed(c, fg.buf, i)
          /\ SlotHoldsRequest(c)]_vars

\* C21, the channels alone.
C21_ArmedBeforeTrigger ==
    [][\A c \in Cams : TriggerStep(c) =>
          \A i \in Planes : i < format_num_planes(config[c].format) => PlaneArmed(c, fg.buf, i)]_vars

\* C21, the slot alone.
C21_StoredBeforeTrigger ==
    [][\A c \in Cams : TriggerStep(c) => SlotHoldsRequest(c)]_vars

\* The step is line 423 of a capture on context c.
StoreStep(c) == FgAt("store_pending") /\ fg.cam = c /\ fg'.pc = "store_cb"

\* The step enters the handler of the PIO instance that serves context c.
HandlerStep(c) == isr = NoIsr /\ isr' # NoIsr /\ irq_ctxs[isr'] = c

C23_HandlerSeesWholeRequest ==
    [][\A c \in Cams :
          (HandlerStep(c) /\ pending[c] # NULL) =>
              /\ pending[c] = req[c].buf
              /\ pending_cb[c] = req[c].cb
              /\ pending_cb[c] # NULL => cb_data[c] = req[c].data]_vars

\* The step is a camera_init on context c that reaches camera_pio_init and
\* returns 0: it writes the dispatch-table entry of its PIO instance.
InitWritesEntry(c) == InitReturned(c) /\ call'.ret = 0

\* C24 as stated: camera_init writes irq_ctxs[i] (line 85 or 89) with the
\* interrupt line of instance i disabled, and camera_term leaves the line
\* disabled and the entry empty.
C24_EntryWrittenWithIrqDisabled ==
    [][\A c \in Cams :
          /\ InitWritesEntry(c) => ~irq_enabled[platform'[c].pio]
          /\ TermStep(c) => (~irq_enabled'[platform[c].pio] /\ irq_ctxs'[platform[c].pio] = NoCam)]_vars

\* The step is a direct camera_configure on context c that passed the size
\* check and ran camera_pio_configure.
DirectReconfigure(c) == Idle /\ call'.op = "configure" /\ call'.cam = c /\ call'.ret = 0

\* The step is an accepted capture on context c whose implicit
\* camera_configure passed the size check and ran camera_pio_configure.
ImplicitReconfigure(c) ==
    /\ CaptureAccepted(c)
    /\ ConfigMismatch(c, fg'.buf)
    /\ SupportedSize(BufWidth(fg'.buf), BufHeight(fg'.buf))

\* C25 as stated: the state machines are reprogrammed and the cached
\* configuration rewritten only while the slot is empty.
C25_ReconfigureOnlyWhenIdle ==
    [][\A c \in Cams : (DirectReconfigure(c) \/ ImplicitReconfigure(c)) => pending[c] = NULL]_vars

\* C25, the implicit configure of a capture alone.
C25_ImplicitReconfigureWhenIdle ==
    [][\A c \in Cams : ImplicitReconfigure(c) => pending[c] = NULL]_vars

\* The channels recorded in dma_channels[] of context c.
OwnChannels(c) == {dma_channels[c][i] : i \in Planes}

\* C26: a camera_init that returns 0 claims CAMERA_MAX_N_PLANES channels
\* that were free, contiguous from base_dma_channel when one is given; no
\* step but a camera_init or a camera_term of the context changes its
\* channels, and while the context is initialised they stay claimed.
C26_ChannelsFixedAtInit ==
    [][\A c \in Cams :
          /\ InitWritesEntry(c) =>
                /\ Cardinality(OwnChannels(c)') = CAMERA_MAX_N_PLANES
                /\ OwnChannels(c)' \subseteq Channels \ dma_claimed
                /\ dma_claimed' = dma_claimed \cup OwnChannels(c)'
                /\ platform'[c].base_dma_channel >= 0 =>
                      \A i \in Planes : dma_channels'[c][i] = platform'[c].base_dma_channel + i
          /\ (life[c] = "active" /\ ~TermStep(c)) =>
                /\ dma_channels'[c] = dma_channels[c]
                /\ dma_claimed' = dma_claimed
                /\ OwnChannels(c) \subseteq dma_claimed
          /\ (life[c] = "active" /\ TermStep(c)) => dma_claimed' = dma_claimed \ OwnChannels(c)]_vars

\* A context initialised on base channel 2 holds channels 2, 3, 4 after a
\* completed capture and a configure that changed the format.
C26_Witness ==
    /\ life[0] = "active"
    /\ platform[0].base_dma_channel = 2
    /\ dma_channels[0] = [i \in Planes |-> 2 + i]
    /\ completions[0] >= 1
    /\ call.op = "configure"
    /\ call.ret = 0
    /\ ~call.repeated

\* The transfer width the claim names, in bits.
StatedTransferBits(format, plane) ==
    IF format \in {FORMAT_RGB565, FORMAT_YUYV} THEN 32
    ELSE IF plane = 0 THEN 16 ELSE 8

\* A direct camera_configure on context c has just returned 0 for one of
\* the three formats.
ConfiguredSupported(c) ==
    /\ call.op = "configure"
    /\ call.cam = c
    /\ call.ret = 0
    /\ config[c].format \in {FORMAT_RGB565, FORMAT_YUYV, FORMAT_YUV422}

\* C27: after a successful configure at 80x60, every plane of the format
\* has the stated transfer width, offset 4 - width in bytes and
\* format_plane_size / width in bytes transfers.
C27_TransferParameters ==
    \A c \in Cams : ConfiguredSupported(c) =>
        /\ <<config[c].width, config[c].height>> = <<80, 60>>
        /\ \A p \in Planes : p < format_num_planes(config[c].format) =>
              LET bytes == StatedTransferBits(config[c].format, p) \div 8 IN
              /\ dma_transfer_size_to_bytes(config[c].dma_cfgs[p].data_size) = bytes
              /\ config[c].dma_cfgs[p].data_size =
                    (IF bytes = 4 THEN DMA_SIZE_32 ELSE IF bytes = 2 THEN DMA_SIZE_16 ELSE DMA_SIZE_8)
              /\ config[c].dma_offset[p] = 4 - bytes
              /\ config[c].dma_transfers[p] = format_plane_size(config[c].format, p, 80, 60) \div bytes

\* A configure for the planar format has returned 0: 16-bit transfers at
\* offset 2 for plane 0, 8-bit transfers at offset 3 for planes 1 and 2.
C27_Witness ==
    /\ ConfiguredSupported(0)
    /\ config[0].format = FORMAT_YUV422
    /\ config[0].dma_offset = [p \in Planes |-> IF p = 0 THEN 2 ELSE 3]
    /\ config[0].dma_transfers = [p \in Planes |-> 2400]

\* Bytes moved by one transfer of a channel programmed with data size ds
\* (the DMA controller's encoding: 0, 1, 2 for 1, 2, 4 bytes).
BytesPerTransfer(ds) == IF ds = 0 THEN 1 ELSE IF ds = 1 THEN 2 ELSE 4

\* An 80x60 buffer of one of the three formats.
FullSizeBuffer(b) ==
    /\ BufFormat(b) \in {FORMAT_RGB565, FORMAT_YUYV, FORMAT_YUV422}
    /\ <<BufWidth(b), BufHeight(b)>> = <<CAMERA_WIDTH_DIV8, CAMERA_HEIGHT_DIV8>>

\* C28: when a capture into an 80x60 buffer of a supported format is
\* accepted, the channel of every plane of the buffer is armed for that
\* plane with a count that, times the bytes per transfer, is the plane's
\* size buf->sizes[p].
C28_ArmedCountCoversPlane ==
    [][\A c \in Cams : (CaptureAccepted(c) /\ FullSizeBuffer(fg'.buf)) =>
          \A p \in Planes : BufHasPlane(fg'.buf, p) =>
              LET ch == dma_ch'[dma_channels[c][p]] IN
              /\ ch.busy
              /\ ch.buf = fg'.buf
              /\ ch.plane = p
              /\ ch.count * BytesPerTransfer(ch.data_size) = BufSize(fg'.buf, p)]_vars

\* A capture into the three-plane 80x60 buffer is accepted on a context
\* that was configured for another format: its three channels are armed.
C28_Witness ==
    /\ fg.pc = "store_pending"
    /\ fg.buf = 2
    /\ \A p \in Planes : dma_ch[dma_channels[fg.cam][p]].busy /\ dma_ch[dma_channels[fg.cam][p]].buf = 2
    /\ dma_ch[dma_channels[fg.cam][0]].count = 2400
    /\ sensor[fg.cam].colorspace = OV7670_COLOR_YUV

\* The enabled state machines of PIO instance p.
EnabledSMs(p) == {s \in SMs : sm_enabled[p][s]}

\* C29: after a configure that passed the size check, called directly or
\* from a capture, the enabled state machines of the context's PIO instance
\* are machine 0 and machines 1..plane count of the new format.
C29_EnabledMachinesMatchFormat ==
    [][\A c \in Cams : (DirectReconfigure(c) \/ ImplicitReconfigure(c)) =>
          EnabledSMs(platform[c].pio)' = {0} \cup (1 .. format_num_planes(config'[c].format))]_vars

\* A configure for a one-plane format has returned 0 on a context that
\* still caches the plane 1 and 2 entries of the three-plane format:
\* machines 2 and 3 are disabled.
C29_Witness ==
    /\ call.op = "configure"
    /\ call.ret = 0
    /\ config[0].format = FORMAT_RGB565
    /\ config[0].dma_offset[1] = 3
    /\ config[0].dma_offset[2] = 3
    /\ EnabledSMs(0) = {0, 1}

C32_ProbeBounded ==
    LET n == Len(probe.bus)
        matched(i) == probe.bus[i].w /\ probe.bus[i].r /\ probe.bus[i].val = 118
    IN /\ n <= 5
       /\ \A i \in 1 .. n - 1 : ~matched(i)
       /\ probe.pc = "loop" => probe.tries = 5 - n
       /\ probe.pc = "done" =>
             /\ probe.ret = (\E i \in 1 .. n : matched(i))
             /\ ~probe.ret => n = 5

\* The probe returned true at its fifth attempt, after a failed write, a failed
\* read and two wrong identity bytes.
C32_Witness ==
    /\ probe.pc = "done" /\ probe.ret /\ Len(probe.bus) = 5
    /\ ~probe.bus[1].w
    /\ probe.bus[2].w /\ ~probe.bus[2].r
    /\ probe.bus[3].r /\ probe.bus[3].val = 117
    /\ probe.bus[4].r /\ probe.bus[4].val = 0

\* C33: a channel armed for a caller's buffer never writes past the plane it
\* was given: its transfer count times the bytes of one transfer is at most
\* buf->sizes[plane] of that buffer.
C33_ArmedWithinPlanes ==
    \A ch \in Channels :
        (dma_ch[ch].busy /\ dma_ch[ch].buf \in Bufs) =>
            dma_ch[ch].count * BytesPerTransfer(dma_ch[ch].data_size)
                <= BufSize(dma_ch[ch].buf, dma_ch[ch].plane)

\* C34: a capture that the completion callback requests on its own context
\* returns -2 and changes nothing: the configuration, the stored callback
\* and user data, the DMA channels, the state machines, the trigger queue
\* and the sensor are as they were when the handler was entered, and the
\* slot is empty when __camera_isr has finished.
C34_CallbackCaptureBusy ==
    [][\A c \in Cams : (HandlerStep(c) /\ nested' # nested) =>
          /\ nested'.made /\ nested'.ret = 0 - 2
          /\ pending'[c] = NULL
          /\ UNCHANGED <<config, pending_cb, cb_data, dma_channels, platform>>
          /\ UNCHANGED <<dma_ch, dma_claimed, frame_trig, sm_enabled, pixel_loop, sensor, pio_inte0, irq_enabled, irq_ctxs>>]_vars

\* A callback has asked for another capture and the handler has cleared the
\* slot of the request it completed.
C34_Witness ==
    /\ isr = 0 /\ nested.made /\ nested.ret = 0 - 2
    /\ pending[0] = NULL /\ cb_count[0] = 1 /\ fg.pc = "idle"

\* C35: camera_init leaves the configured triple at (0, 0, 0), and while it
\* is (0, 0, 0) no capture called with allow_reconfigure = false is
\* accepted, whatever the buffer.
C35_UnconfiguredRejectsAll ==
    [][\A c \in Cams :
          /\ (InitReturned(c) /\ call'.ret = 0) => ConfigTriple(c)' = <<0, 0, 0>>
          /\ (CaptureAccepted(c) /\ ~fg'.allow) => ConfigTriple(c) # <<0, 0, 0>>]_vars

\* C35 for the buffers that have a format and a size: on a context whose
\* triple is (0, 0, 0) and whose slot is empty, a capture without
\* allow_reconfigure into a buffer whose triple is not (0, 0, 0) is turned
\* away with -1.
C35_UnconfiguredRejectsSized ==
    \A c \in Cams, b \in UnconfiguredBufs :
        (life[c] = "active" /\ ConfigTriple(c) = <<0, 0, 0>> /\ pending[c] = NULL /\ BufTriple(b) # <<0, 0, 0>>)
            => camera_do_frame_check(c, b, FALSE) = 0 - 1

\* C36: when camera_term returns from a call made with a capture in flight,
\* no DMA channel is armed with the buffer of the discarded request.
C36_TermDisarmsChannels ==
    [][\A c \in Cams : (TermStep(c) /\ pending[c] # NULL) =>
          \A ch \in Channels : ~(dma_ch'[ch].busy /\ dma_ch'[ch].buf = pending[c])]_vars

\* C37: a capture that is accepted is into a buffer whose format has 1 or 3
\* planes, and it has armed exactly that many DMA channels for the buffer.
C37_ArmedPlaneCount ==
    [][\A c \in Cams : CaptureAccepted(c) =>
          LET n == format_num_planes(BufFormat(fg'.buf)) IN
          /\ n \in {1, 3}
          /\ Cardinality({ch \in Channels : dma_ch'[ch].busy /\ dma_ch'[ch].buf = fg'.buf}) = n]_vars

\* C38: a camera_term called on a context that the previous camera_term
\* already shut down finds no channel to release, calls no callback and
\* leaves the context, the dispatch table, the claimed channels, the DMA
\* channels, the state machines, the interrupt enables and the sensor as
\* the first call left them.
C38_TermIdempotent ==
    [][\A c \in Cams : (TermStep(c) /\ life[c] = "terminated") =>
          /\ TermUnclaimed(c) = {}
          /\ cb_count' = cb_count
          /\ UNCHANGED <<cam_vars, hw_vars>>]_vars

\* camera_term has returned for the second time in a row, the first call
\* having discarded a capture in flight.
C38_Witness ==
    /\ call.op = "term" /\ call.repeated
    /\ life[0] = "terminated"
    /\ \E ch \in Channels : dma_ch[ch].busy
    /\ \A i \in Planes : dma_channels[0][i] = 0 - 1

\* C39: for every supported format and plane and every 16-bit width and
\* height, format_stride is bytes_per_pixel * width / hsub and the 32-bit
\* product format_plane_size returns loses nothing: stride * height is
\* below 2^32.
C39_PlaneSizeExact ==
    calc # NoCalc =>
        /\ calc.stride = (format_bytes_per_pixel(calc.format, calc.plane) * calc.width) \div format_hsub(calc.format, calc.plane)
        /\ calc.size.carry = 0

\* C39 for format_stride alone: it is exact and below 2^32 over the whole
\* range, and so is the plane size of the one-byte planes of YUV422.
C39_StrideExact ==
    calc # NoCalc =>
        /\ calc.stride = (format_bytes_per_pixel(calc.format, calc.plane) * calc.width) \div format_hsub(calc.format, calc.plane)
        /\ calc.stride <= 2 * UINT16_MAX
        /\ calc.format = FORMAT_YUV422 => calc.size.carry = 0

====
